---- MODULE Spec2Model ----
(***************************************************************************)
(* A model of the custom colour preset subsystem of the Oxygen settings    *)
(* plugin: the preset registry (PresetManager, color-utils), the modals    *)
(* that edit settings.customPresets, the CSS generator and the style       *)
(* application layer (CustomPresetCSS, StyleManagerImpl, MinimalTheme).     *)
(*                                                                         *)
(* Strings are sequences of one-character strings, so that trimming,       *)
(* slugification, truncation and string equality are computed as the code  *)
(* computes them.                                                          *)
(***************************************************************************)
EXTENDS Integers, Sequences, FiniteSets, TLC

(***************************************************************************)
(* Characters and strings                                                  *)
(***************************************************************************)
LowerSeq ==
  <<"a","b","c","d","e","f","g","h","i","j","k","l","m",
    "n","o","p","q","r","s","t","u","v","w","x","y","z">>

UpperSeq ==
  <<"A","B","C","D","E","F","G","H","I","J","K","L","M",
    "N","O","P","Q","R","S","T","U","V","W","X","Y","Z">>

DigitSeq == <<"0","1","2","3","4","5","6","7","8","9">>

Range(s) == {s[i] : i \in DOMAIN s}

\* /\s/ : the whitespace the model's inputs use
Whitespace == {" "}

\* the character class of /[<>:"/\\|?*]/g in sanitizePresetName
ForbiddenChars == {"<", ">", ":", "\"", "/", "\\", "|", "?", "*"}

\* the character class [a-z0-9-] of generatePresetId and validatePresetId
IdChars == Range(LowerSeq) \cup Range(DigitSeq) \cup {"-"}

\* String.prototype.toLowerCase on one character
ToLowerChar(c) ==
  IF \E i \in DOMAIN UpperSeq : UpperSeq[i] = c
  THEN LowerSeq[CHOOSE i \in DOMAIN UpperSeq : UpperSeq[i] = c]
  ELSE c

toLowerCase(s) == [i \in DOMAIN s |-> ToLowerChar(s[i])]

\* n copies of the character c
Rep(c, n) == [i \in 1..n |-> c]

RECURSIVE TrimLeft(_)
TrimLeft(s) ==
  IF s # <<>> /\ Head(s) \in Whitespace THEN TrimLeft(Tail(s)) ELSE s

RECURSIVE TrimRight(_)
TrimRight(s) ==
  IF s # <<>> /\ s[Len(s)] \in Whitespace
  THEN TrimRight(SubSeq(s, 1, Len(s) - 1))
  ELSE s

\* String.prototype.trim
trim(s) == TrimRight(TrimLeft(s))

\* s.replace(/\s+/g, '-') : every maximal run of whitespace becomes one hyphen
RECURSIVE ReplaceWhitespaceRuns(_)
ReplaceWhitespaceRuns(s) ==
  IF s = <<>> THEN <<>>
  ELSE IF Head(s) \in Whitespace
       THEN <<"-">> \o ReplaceWhitespaceRuns(TrimLeft(Tail(s)))
       ELSE <<Head(s)>> \o ReplaceWhitespaceRuns(Tail(s))

\* s.substring(0, n)
substring0(s, n) == SubSeq(s, 1, IF Len(s) < n THEN Len(s) ELSE n)

\* Number.prototype.toString for a natural number (template literal ${counter})
RECURSIVE NatToString(_)
NatToString(n) ==
  IF n < 10 THEN <<DigitSeq[n + 1]>>
  ELSE NatToString(n \div 10) \o <<DigitSeq[(n % 10) + 1]>>

(***************************************************************************)
(* color-utils: names and ids                                              *)
(***************************************************************************)
\* substring(0, 50) in generatePresetId
SlugTruncation == 50

\* id.length <= 50 in validatePresetId
MaxIdLength == 50

sanitizePresetName(name) ==
  SelectSeq(trim(name), LAMBDA c : c \notin ForbiddenChars)

generatePresetId(name) ==
  substring0(
    SelectSeq(ReplaceWhitespaceRuns(toLowerCase(sanitizePresetName(name))),
              LAMBDA c : c \in IdChars),
    SlugTruncation)

\* color-utils validatePresetId: the format check alone
validatePresetIdFormat(id) ==
  /\ Len(id) > 0                      \* /^[a-z0-9-]+$/ needs one character
  /\ \A i \in DOMAIN id : id[i] \in IdChars
  /\ Len(id) <= MaxIdLength

\* the value of an omitted excludeId argument: equal to no string
Undefined == <<"undefined-value">>

\* a uniqueness check that compares nothing: every id counts as unused
isPresetIdUniqueUnchecked(id, existingIds, excludeId) == TRUE

\* existingIds is the list of the ids of existingPresets, in order
isPresetIdUnique(id, existingIds, excludeId) ==
  ~ \E i \in DOMAIN existingIds :
        existingIds[i] = id /\ existingIds[i] # excludeId

\* PresetManager.validatePresetId
validatePresetId(id, existingIds, excludeId) ==
  validatePresetIdFormat(id) /\ isPresetIdUnique(id, existingIds, excludeId)

\* the candidate id the uniqueness loop of createPreset tests when its
\* counter has the value n (n = 0: before the first iteration)
CandidateId(sanitizedName, n) ==
  IF n = 0 THEN generatePresetId(sanitizedName)
  ELSE generatePresetId(sanitizedName) \o <<"-">> \o NatToString(n)

(***************************************************************************)
(* CustomPreset.ts: colours, palettes, presets                             *)
(***************************************************************************)
HSL(h, s, l) == [h |-> h, s |-> s, l |-> l]

\* the closed set of override keys, in the order both generators walk it
OverrideKeys ==
  <<"bg1", "bg2", "bg3", "ui1", "ui2", "ui3", "tx1", "tx2", "tx3", "tx4",
    "hl1", "hl2",
    "red", "orange", "yellow", "green", "cyan", "blue", "purple", "pink">>

\* the keys PresetCSSGenerator maps onto the Oxygen variable of the same name
OxygenKeys ==
  {"bg1", "bg2", "bg3", "ui1", "ui2", "ui3", "tx1", "tx2", "tx3", "tx4",
   "hl1", "hl2"}

\* A ColorOverrides object is a function from the keys it holds to hex
\* strings; objects live in the heap colorsObj and palettes hold references.
\* DEFAULT_COLOR_PALETTE.colors is the object with reference DefaultColorsRef.
DefaultColorsRef == 0

\* DEFAULT_COLOR_PALETTE (its colors field is the reference above)
DEFAULT_COLOR_PALETTE ==
  [base |-> HSL(210, 20, 50), accent |-> HSL(200, 80, 50),
   colors |-> DefaultColorsRef, frameLightnessOffset |-> {}]

Max(a, b) == IF a > b THEN a ELSE b
Min(a, b) == IF a < b THEN a ELSE b

(***************************************************************************)
(* preset-color-defaults.ts: getDefaultColorForKey.  DefaultTokenHSL is    *)
(* the colour the switch hands to hslToHex for the bg, ui and tx keys.     *)
(***************************************************************************)
DerivedTokens ==
  {"bg1", "bg2", "bg3", "ui1", "ui2", "ui3", "tx1", "tx2", "tx3", "tx4"}

\* a derivation that shifts without clamping
DefaultTokenHSLUnclamped(key, base) ==
  HSL(base.h, base.s - 20, IF base.l > 50 THEN base.l - 87 ELSE base.l + 77)

DefaultTokenHSL(key, base) ==
  LET isLightBase == base.l > 50
      Shift(down, up) ==
        IF isLightBase THEN Max(0, base.l - down) ELSE Min(100, base.l + up)
  IN CASE key = "bg1" -> HSL(base.h, base.s, base.l)
       [] key = "bg2" -> HSL(base.h, base.s, Shift(5, 5))
       [] key = "bg3" -> HSL(base.h, base.s, Shift(10, 10))
       [] key = "ui1" -> HSL(base.h, base.s, Shift(15, 15))
       [] key = "ui2" -> HSL(base.h, base.s, Shift(10, 10))
       [] key = "ui3" -> HSL(base.h, base.s, Shift(5, 5))
       [] key = "tx1" -> HSL(base.h, Max(0, base.s - 10), Shift(87, 77))
       [] key = "tx2" -> HSL(base.h, Max(0, base.s - 20), Shift(53, 45))
       [] key = "tx3" -> HSL(base.h, Max(0, base.s - 10), Shift(78, 30))
       [] key = "tx4" -> HSL(base.h, Max(0, base.s - 10), Shift(48, 40))

(***************************************************************************)
(* The token colours both CSS generators compute (preset-css-generator.ts  *)
(* lines 31-56, PresetManager.ts lines 36-61: the same text in both).      *)
(***************************************************************************)
GeneratorTokenHSL(key, base) ==
  LET isLightBase == base.l > 50
      Shift(d) ==
        IF isLightBase THEN Max(0, base.l - d) ELSE Min(100, base.l + d)
  IN CASE key = "bg1" -> HSL(base.h, base.s, base.l)
       [] key = "bg2" -> HSL(base.h, base.s, Shift(5))
       [] key = "bg3" -> HSL(base.h, base.s, Shift(10))
       [] key = "ui1" -> HSL(base.h, base.s, Shift(15))
       [] key = "ui2" -> HSL(base.h, base.s, Shift(10))
       [] key = "ui3" -> HSL(base.h, base.s, Shift(5))
       [] key = "tx1" ->
            HSL(base.h, Max(0, base.s - 10), IF isLightBase THEN 15 ELSE 85)
       [] key = "tx2" ->
            HSL(base.h, Max(0, base.s - 20), IF isLightBase THEN 25 ELSE 75)
       [] key = "tx3" ->
            HSL(base.h, Max(0, base.s - 10), IF isLightBase THEN 35 ELSE 65)
       [] key = "tx4" ->
            HSL(base.h, Max(0, base.s - 10), IF isLightBase THEN 30 ELSE 70)

(***************************************************************************)
(* CSS text.  A rule block is a record of its selector and the sequence of *)
(* its declarations; a declaration is a property name and a value; a value *)
(* is the record of the function or literal the template string prints.    *)
(***************************************************************************)
Decl(prop, value) == [prop |-> prop, value |-> value]
HslValue(c) == [fn |-> "hsl", h |-> c.h, s |-> c.s, l |-> c.l]
Literal(text) == [fn |-> "literal", text |-> text]
Number(n) == [fn |-> "number", n |-> n]
Percent(n) == [fn |-> "percent", n |-> n]
Important(hex) == [fn |-> "important", text |-> hex]
\* hsla(${accentH}, 50%, 40%, 30%)
Hl1Value(accent) == [fn |-> "hsla", h |-> accent.h, s |-> 50, l |-> 40, a |-> 30]
\* luminance > 0.5 ? 'black' : 'white', where luminance is the WCAG relative
\* luminance of the accent colour: a function of the accent colour alone,
\* kept as the term it is (it needs real exponentiation)
LuminanceChoice(accent) == [fn |-> "black-if-luminance-above-half", of |-> accent]

(***************************************************************************)
(* Scheme selectors                                                        *)
(***************************************************************************)
\* 'minimal-custom-'
CustomPrefix ==
  <<"m","i","n","i","m","a","l","-","c","u","s","t","o","m","-">>

\* a scheme name that leaves the id out
CustomSchemeIdWithoutId(id) == CustomPrefix

\* `minimal-custom-${id}`
CustomSchemeId(id) == CustomPrefix \o id

\* 'minimal-oxygen-light' and 'minimal-oxygen-dark' (DEFAULT_SETTINGS)
OxygenLight ==
  <<"m","i","n","i","m","a","l","-","o","x","y","g","e","n","-",
    "l","i","g","h","t">>

OxygenDark ==
  <<"m","i","n","i","m","a","l","-","o","x","y","g","e","n","-",
    "d","a","r","k">>

\* s.startsWith(prefix)
startsWith(s, prefix) ==
  Len(s) >= Len(prefix) /\ SubSeq(s, 1, Len(prefix)) = prefix

(***************************************************************************)
(* PresetManager.generatePresetCSS (the generator CustomPresetCSS calls).   *)
(* palette is the palette record of the mode, colors the ColorOverrides    *)
(* object its colors field refers to.                                      *)
(***************************************************************************)
\* a colour string of a ColorOverrides object
HexString(text) == [hex |-> text]

\* `--color-${colorKey}` for the syntax keys
ColorProp(key) ==
  CASE key = "red" -> "--color-red"
    [] key = "orange" -> "--color-orange"
    [] key = "yellow" -> "--color-yellow"
    [] key = "green" -> "--color-green"
    [] key = "cyan" -> "--color-cyan"
    [] key = "blue" -> "--color-blue"
    [] key = "purple" -> "--color-purple"
    [] key = "pink" -> "--color-pink"

\* the declarations one override key appends (the switch of lines 172-227)
NativeOverrideDecls(key, color) ==
  LET Imp(prop) == Decl(prop, Important(color))
  IN CASE key = "bg1" -> <<Imp("--background-primary")>>
       [] key = "bg2" -> <<Imp("--background-secondary")>>
       [] key = "bg3" -> <<Imp("--background-secondary-alt")>>
       [] key = "ui1" -> <<Imp("--background-modifier-border"),
                           Imp("--divider-color"),
                           Imp("--frame-divider-color"),
                           Imp("--tab-outline-color")>>
       [] key = "ui2" -> <<Imp("--background-modifier-border-hover")>>
       [] key = "ui3" -> <<Imp("--background-modifier-border-focus")>>
       [] key = "tx1" -> <<Imp("--text-normal"), Imp("--text-bold"),
                           Imp("--text-title-h1"), Imp("--text-title-h2"),
                           Imp("--text-title-h3"), Imp("--text-title-h4"),
                           Imp("--text-title-h5"), Imp("--text-title-h6")>>
       [] key = "tx2" -> <<Imp("--text-muted"), Imp("--text-blockquote")>>
       [] key = "tx3" -> <<Imp("--text-faint")>>
       [] key = "tx4" -> <<Imp("--text-code")>>
       [] key = "hl1" -> <<Imp("--text-highlight-bg"), Imp("--text-selection")>>
       [] key = "hl2" -> <<Imp("--text-highlight-bg-active")>>
       [] OTHER -> <<Decl(ColorProp(key), Literal(color))>>

\* overrides.forEach over the keys from position i on; `if (color)` skips a
\* key the object lacks and one whose value is the empty string
RECURSIVE NativeOverrides(_, _)
NativeOverrides(colors, i) ==
  IF i > Len(OverrideKeys) THEN <<>>
  ELSE LET key == OverrideKeys[i]
       IN (IF key \in DOMAIN colors /\ colors[key] # HexString("")
           THEN NativeOverrideDecls(key, colors[key])
           ELSE <<>>)
          \o NativeOverrides(colors, i + 1)

generatePresetCSS(id, palette, colors, mode) ==
  LET base == palette.base
      accent == palette.accent
      T(key) == HslValue(GeneratorTokenHSL(key, base))
      bg1 == T("bg1")
      bg2 == T("bg2")
      bg3 == T("bg3")
      ui1 == T("ui1")
      ui2 == T("ui2")
      ui3 == T("ui3")
      tx1 == T("tx1")
      tx2 == T("tx2")
      tx3 == T("tx3")
      tx4 == T("tx4")
      ax1 == HslValue(accent)
      ax2 == HslValue(HSL(accent.h, accent.s, Max(0, Min(100, accent.l + 8))))
      ax3 == HslValue(HSL(accent.h, accent.s, Max(0, Min(100, accent.l - 5))))
      hl1 == Hl1Value(accent)
      hl2 == Literal("rgba(255, 177, 80, 0.3)")
      textOnAccent == Literal(IF accent.l > 50 THEN "black" ELSE "white")
  IN [selector |->
        [prefix |-> "body",
         themeClass |-> IF mode = "light" THEN "theme-light" ELSE "theme-dark",
         className |-> CustomSchemeId(id)],
      decls |->
        << Decl("--background-primary", bg1),
           Decl("--background-secondary", bg2),
           Decl("--background-secondary-alt", bg3),
           Decl("--background-modifier-border", ui1),
           Decl("--background-modifier-border-hover", ui2),
           Decl("--background-modifier-border-focus", ui3),
           Decl("--text-normal", tx1),
           Decl("--text-muted", tx2),
           Decl("--text-faint", tx3),
           Decl("--text-accent", ax1),
           Decl("--text-accent-hover", ax2),
           Decl("--interactive-accent", ax3),
           Decl("--text-on-accent", textOnAccent),
           Decl("--text-highlight-bg", hl1),
           Decl("--text-highlight-bg-active", hl2),
           Decl("--interactive-normal", bg2),
           Decl("--interactive-hover", bg3),
           Decl("--scrollbar-bg", Literal("transparent")),
           Decl("--scrollbar-thumb-bg", ui1),
           Decl("--scrollbar-active-thumb-bg", ui3),
           Decl("--divider-color", ui1),
           Decl("--frame-divider-color", ui1),
           Decl("--tab-outline-color", ui1),
           Decl("--background-modifier-accent", ax3),
           Decl("--mobile-sidebar-background", bg1),
           Decl("--background-modifier-form-field-highlighted", bg1),
           Decl("--background-modifier-form-field", bg1),
           Decl("--background-modifier-hover", bg3),
           Decl("--background-modifier-active-hover", bg3),
           Decl("--background-primary-alt", bg2),
           Decl("--background-table-rows", bg2),
           Decl("--checkbox-color", ax3),
           Decl("--code-normal", tx1),
           Decl("--icon-color-active", tx1),
           Decl("--icon-color-focused", tx1),
           Decl("--icon-color-hover", tx2),
           Decl("--icon-color", tx2),
           Decl("--interactive-accent-hover", ax1),
           Decl("--list-marker-color", tx3),
           Decl("--nav-item-background-active", bg3),
           Decl("--nav-item-background-hover", bg3),
           Decl("--nav-item-color", tx2),
           Decl("--nav-item-color-active", tx1),
           Decl("--nav-item-color-hover", tx1),
           Decl("--nav-item-color-selected", tx1),
           Decl("--nav-collapse-icon-color", tx2),
           Decl("--nav-collapse-icon-color-collapsed", tx2),
           Decl("--nav-indentation-guide-color", ui1),
           Decl("--prompt-border-color", ui3),
           Decl("--quote-opening-modifier", ui2),
           Decl("--ribbon-background", bg2),
           Decl("--search-result-background", bg1),
           Decl("--tab-text-color-focused-active", tx1),
           Decl("--text-blockquote", tx2),
           Decl("--text-bold", tx1),
           Decl("--text-code", tx4),
           Decl("--text-selection", hl1),
           Decl("--text-title-h1", tx1),
           Decl("--text-title-h2", tx1),
           Decl("--text-title-h3", tx1),
           Decl("--text-title-h4", tx1),
           Decl("--text-title-h5", tx1),
           Decl("--text-title-h6", tx1),
           Decl("--button-background", ax3),
           Decl("--button-background-hover", ax2),
           Decl("--button-text", textOnAccent),
           Decl(".mod-right-split",
                [fn |-> "block",
                 decls |-> <<Decl("--background-secondary", bg1)>>]) >>
        \o NativeOverrides(colors, 1)]

(***************************************************************************)
(* PresetCSSGenerator.generateCSS (preset-css-generator.ts): the rule that *)
(* sets the Oxygen variables.  preset is a preset with the colors objects  *)
(* of its two palettes looked up (lightColors, darkColors).                *)
(***************************************************************************)
\* a palette choice that ignores the mode
ModePaletteLight(preset, mode) == preset.light

\* line 14: mode === 'light' ? preset.light : preset.dark
ModePalette(preset, mode) ==
  IF mode = "light" THEN preset.light ELSE preset.dark

\* line 67: isLightMode ? 'white' : 'black'
sp1(mode) == IF mode = "light" THEN "white" ELSE "black"

\* `--${colorKey}` for the Oxygen keys
OxygenProp(key) ==
  CASE key = "bg1" -> "--bg1" [] key = "bg2" -> "--bg2"
    [] key = "bg3" -> "--bg3" [] key = "ui1" -> "--ui1"
    [] key = "ui2" -> "--ui2" [] key = "ui3" -> "--ui3"
    [] key = "tx1" -> "--tx1" [] key = "tx2" -> "--tx2"
    [] key = "tx3" -> "--tx3" [] key = "tx4" -> "--tx4"
    [] key = "hl1" -> "--hl1" [] key = "hl2" -> "--hl2"

\* an override loop that appends nothing
OxygenOverridesNone(colors, i) == <<>>

\* lines 196-224: overrides.forEach from position i on; `if (color)` skips a
\* key the object lacks and one whose value is the empty string; the Oxygen
\* keys set the variable of their name, the others `--color-${colorKey}`
RECURSIVE OxygenOverrides(_, _)
OxygenOverrides(colors, i) ==
  IF i > Len(OverrideKeys) THEN <<>>
  ELSE LET key == OverrideKeys[i]
       IN (IF key \in DOMAIN colors /\ colors[key] # HexString("")
           THEN <<Decl(IF key \in OxygenKeys THEN OxygenProp(key)
                       ELSE ColorProp(key),
                       Literal(colors[key]))>>
           ELSE <<>>)
          \o OxygenOverrides(colors, i + 1)

\* palette.frameLightnessOffset !== undefined (the field is kept as the set
\* of its values: {} for undefined, {n} for the number n)
HasFrameLightnessOffset(palette) == palette.frameLightnessOffset # {}

generateCSS(preset, mode) ==
  LET palette == ModePalette(preset, mode)
      colors == IF mode = "light" THEN preset.lightColors
                ELSE preset.darkColors
      base == palette.base
      accent == palette.accent
      isLightBase == base.l > 50
      T(key) == HslValue(GeneratorTokenHSL(key, base))
      bg2 == T("bg2")
      Extended(hue) ==
        HslValue(HSL(hue, accent.s, IF isLightBase THEN 55 ELSE 65))
  IN [selector |->
        [prefix |-> "",
         themeClass |-> IF mode = "light" THEN "theme-light" ELSE "theme-dark",
         className |-> CustomSchemeId(preset.id)],
      decls |->
        << Decl("--base-h", Number(base.h)),
           Decl("--base-s", Percent(base.s)),
           Decl("--base-l", Percent(base.l)),
           Decl("--accent-h", Number(accent.h)),
           Decl("--accent-s", Percent(accent.s)),
           Decl("--accent-l", Percent(accent.l)),
           Decl("--bg1", T("bg1")),
           Decl("--bg2", bg2),
           Decl("--bg-tab", bg2),
           Decl("--bg3", T("bg3")),
           Decl("--ui1", T("ui1")),
           Decl("--ui2", T("ui2")),
           Decl("--ui3", T("ui3")),
           Decl("--tx1", T("tx1")),
           Decl("--tx2", T("tx2")),
           Decl("--tx3", T("tx3")),
           Decl("--tx4", T("tx4")),
           Decl("--hl1", Hl1Value(accent)),
           Decl("--hl2", Literal("rgba(255, 177, 80, 0.3)")),
           Decl("--sp1", Literal(sp1(mode))),
           Decl("--text-on-accent", LuminanceChoice(accent)),
           Decl("--color-red", Extended(0)),
           Decl("--color-orange", Extended(25)),
           Decl("--color-yellow", Extended(50)),
           Decl("--color-green", Extended(130)),
           Decl("--color-cyan", Extended(180)),
           Decl("--color-blue", Extended(220)),
           Decl("--color-purple", Extended(280)),
           Decl("--color-pink", Extended(330)) >>
        \o (IF HasFrameLightnessOffset(palette)
            THEN <<Decl("--frame-background-l",
                        Percent(accent.l
                                + (CHOOSE n \in palette.frameLightnessOffset :
                                     TRUE)))>>
            ELSE <<>>)
        \o OxygenOverrides(colors, 1)]

(***************************************************************************)
(* preset-color-defaults.ts: hslToHex and hexToHSL.  The program computes  *)
(* in double precision; here every quotient is kept as an exact fraction   *)
(* of integers up to the Math.round that ends it.                          *)
(***************************************************************************)
HexDigits ==
  <<"0", "1", "2", "3", "4", "5", "6", "7", "8", "9",
    "a", "b", "c", "d", "e", "f">>

\* Math.round(num / den) for den > 0: the nearest integer, a half going up
RoundDiv(num, den) == (2 * num + den) \div (2 * den)

\* toHex (lines 160-163): Math.round(c * 255) in base 16, padded to two
\* digits; c is num / den
toHex(num, den) ==
  LET n == RoundDiv(255 * num, den)
  IN <<HexDigits[(n \div 16) + 1], HexDigits[(n % 16) + 1]>>

\* hue2rgb (lines 139-146) with p = P / 10000, q = Q / 10000, t = T / 360:
\* the numerator of the result over 600000
hue2rgb(P, Q, T) ==
  LET t1 == IF T < 0 THEN T + 360 ELSE T
      t == IF t1 > 360 THEN t1 - 360 ELSE t1
  IN IF t < 60 THEN 60 * P + (Q - P) * t
     ELSE IF t < 180 THEN 60 * Q
     ELSE IF t < 240 THEN 60 * P + (Q - P) * (240 - t)
     ELSE 60 * P

\* lines 135-158 of hslToHex: r, g and b before they are rounded, each as
\* <<numerator, denominator>>
RgbFractions(hsl) ==
  LET Q == IF hsl.l < 50 THEN hsl.l * (100 + hsl.s)
           ELSE 100 * hsl.l + 100 * hsl.s - hsl.l * hsl.s
      P == 200 * hsl.l - Q
      Channel(T) ==
        IF hsl.s = 0 THEN <<hsl.l, 100>>
        ELSE <<hue2rgb(P, Q, T), 600000>>
  IN <<Channel(hsl.h + 120), Channel(hsl.h), Channel(hsl.h - 120)>>

\* hslToHex (lines 134-166): the string '#rrggbb'
hslToHex(hsl) ==
  LET c == RgbFractions(hsl)
  IN <<"#">> \o toHex(c[1][1], c[1][2]) \o toHex(c[2][1], c[2][2])
            \o toHex(c[3][1], c[3][2])

\* parseInt(text, 16) of two hexadecimal digits
parseHexByte(text) ==
  LET Value(c) == (CHOOSE i \in 1..16 : HexDigits[i] = c) - 1
  IN 16 * Value(text[1]) + Value(text[2])

\* lines 100-123 of hexToHSL: h * 360, s * 100 and l * 100 before they are
\* rounded, each as <<numerator, denominator>>
HslFractions(hex) ==
  LET digits == IF hex # <<>> /\ Head(hex) = "#" THEN Tail(hex) ELSE hex
      r == parseHexByte(SubSeq(digits, 1, 2))
      g == parseHexByte(SubSeq(digits, 3, 4))
      b == parseHexByte(SubSeq(digits, 5, 6))
      max == Max(r, Max(g, b))
      min == Min(r, Min(g, b))
      d == max - min
      \* the h of lines 118-120 as a numerator over d
      sixth == IF max = r THEN (g - b) + (IF g < b THEN 6 * d ELSE 0)
               ELSE IF max = g THEN (b - r) + 2 * d
               ELSE (r - g) + 4 * d
  IN [h |-> IF max = min THEN <<0, 1>> ELSE <<60 * sixth, d>>,
      s |-> IF max = min THEN <<0, 1>>
            ELSE IF max + min > 255 THEN <<100 * d, 510 - max - min>>
            ELSE <<100 * d, max + min>>,
      l |-> <<100 * (max + min), 510>>]

\* hexToHSL (lines 99-129) of a string '#rrggbb'
hexToHSL(hex) ==
  LET f == HslFractions(hex)
  IN HSL(RoundDiv(f.h[1], f.h[2]), RoundDiv(f.s[1], f.s[2]),
         RoundDiv(f.l[1], f.l[2]))

\* num / den lies exactly half way between two integers: the one place where
\* the program's double may fall on the other side of the exact quotient
HalfWay(num, den) == (2 * num) % (2 * den) = den

\* no quantity the round trip of hsl rounds lies half way
RoundsExactly(hsl) ==
  LET c == RgbFractions(hsl)
      f == HslFractions(hslToHex(hsl))
  IN /\ \A i \in 1..3 : ~ HalfWay(255 * c[i][1], c[i][2])
     /\ ~ HalfWay(f.h[1], f.h[2])
     /\ ~ HalfWay(f.s[1], f.s[2])
     /\ ~ HalfWay(f.l[1], f.l[2])

(***************************************************************************)
(* State                                                                   *)
(***************************************************************************)
VARIABLES
  presetObj,            \* heap: preset reference -> CustomColorPreset object
  colorsObj,            \* heap: colors reference -> ColorOverrides object
  customPresets,        \* settings.customPresets: sequence of preset references
  lightScheme,          \* settings.lightScheme
  darkScheme,           \* settings.darkScheme
  enableCustomPresets,  \* settings.enableCustomPresets
  modal,                \* the open modal (editor, importer, confirmation)
  settingsTabOpen,      \* the plugin's settings tab is displayed
  headStyles,           \* the plugin's <style> elements of document.head, in order
  bodyClasses,          \* the classes of document.body the plugin manages
  isUpdating,           \* CustomPresetCSS.isUpdating
  timers,               \* pending setTimeout callbacks, in registration order
  cssObserver,          \* StyleManagerImpl.cssObserver is set (and connected)
  leakedObservers,      \* connected observers no field refers to any more
  isOxygenActive,       \* MinimalTheme._isOxygenActive
  cssTheme,             \* vault config cssTheme is the Oxygen theme
  lifecycle,            \* "fresh" before onload, "loaded" after, "unloaded"
                        \* after onunload
  dirty,                \* history: under the Oxygen theme, the settings changed
                        \* since updateCSS was last called
  taskRegen,            \* history: the task of the last step and what updateCSS
                        \* did in it
  cp,                   \* createPreset run step by step (specification SpecCreate)
  probe                 \* inputs and results of the pure functions (SpecDerive)

settingsVars ==
  <<presetObj, colorsObj, customPresets, lightScheme, darkScheme,
    enableCustomPresets>>

styleVars ==
  <<headStyles, bodyClasses, isUpdating, timers, cssObserver, leakedObservers,
    isOxygenActive, cssTheme, lifecycle, dirty, taskRegen>>

uiVars == <<modal, settingsTabOpen>>

vars == <<settingsVars, uiVars, styleVars, cp, probe>>

(***************************************************************************)
(* PresetManager.createPreset                                              *)
(***************************************************************************)
\* The uniqueness loop of createPreset from counter value n on.  The loop
\* leaves at the first valid candidate.  A candidate is invalid because it
\* collides or because it is too long; candidates only grow, and at most
\* Len(existingIds) of them collide, so when none of the candidates
\* 0 .. Len(existingIds) + 1 is valid none ever is and the loop runs for ever:
\* the result is then "hangs".
RECURSIVE CreatePresetLoop(_, _, _)
CreatePresetLoop(sanitizedName, existingIds, n) ==
  IF n > Len(existingIds) + 1 THEN [status |-> "hangs", id |-> <<>>]
  ELSE IF validatePresetId(CandidateId(sanitizedName, n), existingIds, Undefined)
       THEN [status |-> "ok", id |-> CandidateId(sanitizedName, n)]
       ELSE CreatePresetLoop(sanitizedName, existingIds, n + 1)

\* createPreset(name, author, existingPresets): status "threw" for an empty
\* sanitized name, else the loop's status and, when "ok", the new preset.
\* Both palettes are shallow copies of DEFAULT_COLOR_PALETTE: they share its
\* colors object.
createPreset(name, author, existingIds) ==
  LET sanitizedName == sanitizePresetName(name)
      loop == CreatePresetLoop(sanitizedName, existingIds, 0)
  IN IF sanitizedName = <<>> THEN [status |-> "threw"]
     ELSE IF loop.status = "hangs" THEN [status |-> "hangs"]
     ELSE [status |-> "ok",
           preset |-> [id |-> loop.id,
                       name |-> sanitizedName,
                       author |-> trim(author),
                       version |-> "1.0.0",
                       light |-> DEFAULT_COLOR_PALETTE,
                       dark |-> DEFAULT_COLOR_PALETTE]]

(***************************************************************************)
(* createPreset step by step (specification SpecCreate)                    *)
(***************************************************************************)
\* the loop counter is cut off here: SpecCreate stops a run that has not
\* left the loop by then
MaxLoopCounter == 12

\* names createPreset is called with
CreateNames ==
  { <<"a">>, <<"A", " ", "b">>, <<"<", ">">>, <<"!">>, <<" ", "a", " ">>,
    Rep("a", 47), Rep("a", 48), Rep("a", 49), Rep("a", 50), Rep("a", 60) }

\* the first n candidates of a name: the ids n earlier calls produced
RECURSIVE EarlierIds(_, _)
EarlierIds(name, n) ==
  IF n = 0 THEN <<>>
  ELSE EarlierIds(name, n - 1) \o <<CandidateId(sanitizePresetName(name), n - 1)>>

\* lists of existing ids createPreset is called with
CreateExisting ==
  { <<>>, <<<<"a">>>>, <<<<"a">>, <<"a", "-", "1">>>>, <<<<"-", "1">>>>,
    <<Rep("a", 50)>>, <<Rep("a", 49)>>, <<Rep("a", 48)>>, <<Rep("a", 47)>>,
    EarlierIds(Rep("a", 47), 10), EarlierIds(Rep("a", 48), 10),
    EarlierIds(<<"a">>, 11) }

cpIdle ==
  [pc |-> "idle", name |-> <<>>, existing |-> <<>>,
   sanitizedName |-> <<>>, id |-> <<>>, counter |-> 0, first |-> Undefined]

\* lines 259-265: sanitize, throw on an empty name, first candidate
CreateEnter ==
  /\ cp.pc = "start"
  /\ LET sanitizedName == sanitizePresetName(cp.name)
     IN cp' = IF sanitizedName = <<>>
              THEN [cp EXCEPT !.pc = "threw"]
              ELSE [cp EXCEPT !.pc = "loop",
                              !.sanitizedName = sanitizedName,
                              !.id = generatePresetId(sanitizedName),
                              !.counter = 1]
  /\ UNCHANGED <<settingsVars, uiVars, styleVars, probe>>

\* line 268, condition false: the loop is left and the preset returned
CreateLoopExit ==
  /\ cp.pc = "loop"
  /\ validatePresetId(cp.id, cp.existing, Undefined)
  /\ cp' = [cp EXCEPT !.pc = "done"]
  /\ UNCHANGED <<settingsVars, uiVars, styleVars, probe>>

\* lines 268-271, condition true: one iteration of the loop body
CreateLoopIterate ==
  /\ cp.pc = "loop"
  /\ ~ validatePresetId(cp.id, cp.existing, Undefined)
  /\ cp.counter <= MaxLoopCounter
  /\ cp' = [cp EXCEPT
              !.id = generatePresetId(cp.sanitizedName) \o <<"-">>
                       \o NatToString(cp.counter),
              !.counter = cp.counter + 1]
  /\ UNCHANGED <<settingsVars, uiVars, styleVars, probe>>

\* the caller appends the returned preset to the list (preset-commands.ts
\* lines 15-18, FeatureSettings.ts lines 293-315) and calls createPreset with
\* the same name again
CreateAgain ==
  /\ cp.pc = "done" /\ cp.first = Undefined
  /\ cp' = [cpIdle EXCEPT !.pc = "start", !.name = cp.name,
                          !.existing = Append(cp.existing, cp.id),
                          !.first = cp.id]
  /\ UNCHANGED <<settingsVars, uiVars, styleVars, probe>>

(***************************************************************************)
(* The settings a task reads: the presets of settings.customPresets with   *)
(* their colors objects looked up, and the two scheme names.                *)
(***************************************************************************)
ResolvePreset(pObj, cObj, ref) ==
  [id |-> pObj[ref].id,
   light |-> pObj[ref].light,
   dark |-> pObj[ref].dark,
   lightColors |-> cObj[pObj[ref].light.colors],
   darkColors |-> cObj[pObj[ref].dark.colors]]

SettingsOf(pObj, cObj, list, light, dark) ==
  [presets |-> [i \in 1..Len(list) |-> ResolvePreset(pObj, cObj, list[i])],
   lightScheme |-> light,
   darkScheme |-> dark]

\* presets.find(p => scheme === `minimal-custom-${p.id}`): the index of the
\* first match from position i on, 0 for undefined
RECURSIVE FindActive(_, _, _)
FindActive(presets, scheme, i) ==
  IF i > Len(presets) THEN 0
  ELSE IF scheme = CustomSchemeId(presets[i].id) THEN i
  ELSE FindActive(presets, scheme, i + 1)

\* the css string updateCSS builds (part_002 lines 55-70): one rule per mode
\* that has an active preset.  A rule is kept as the arguments
\* generatePresetCSS is called with; RenderCSS gives the text.
RuleSource(id, palette, colors, mode) ==
  [id |-> id, palette |-> palette, colors |-> colors, mode |-> mode]

GenerateActiveCSS(S) ==
  LET li == FindActive(S.presets, S.lightScheme, 1)
      di == FindActive(S.presets, S.darkScheme, 1)
  IN (IF li # 0
      THEN <<RuleSource(S.presets[li].id, S.presets[li].light,
                        S.presets[li].lightColors, "light")>>
      ELSE <<>>)
     \o
     (IF di # 0
      THEN <<RuleSource(S.presets[di].id, S.presets[di].dark,
                        S.presets[di].darkColors, "dark")>>
      ELSE <<>>)

\* the text of a sequence of rules
RenderCSS(rules) ==
  [i \in 1..Len(rules) |->
     generatePresetCSS(rules[i].id, rules[i].palette, rules[i].colors,
                       rules[i].mode)]

(***************************************************************************)
(* Timers.  Time advances in steps of CSS_UPDATE_DELAY; every delay of the *)
(* program is a multiple of it.  The reflow timer of updateCSS only reads  *)
(* document.body.offsetHeight and is left out.                             *)
(***************************************************************************)
CSS_UPDATE_DELAY == 50
UpdatingResetDelay == 150
WatcherSetupDelay == 150
CustomPresetsInitDelay == 100
ThemeChangeDebounce == 100

Timer(delay, kind, gen) == [left |-> delay, kind |-> kind, gen |-> gen]

(***************************************************************************)
(* The style state a task works on, as a record:                           *)
(*   head       the plugin's <style> elements in document.head             *)
(*   body       the classes of document.body the plugin manages            *)
(*   isUpdating the latch of CustomPresetCSS                               *)
(*   timers     pending timers                                             *)
(*   active     MinimalTheme._isOxygenActive                               *)
(*   observer   cssObserver is set;  leaked: connected, unreferenced ones  *)
(*   added      a <style> was appended to head in this task                *)
(*   selfAdded  updateCSS appended its element in this task                *)
(*   called     updateCSS was entered in this task                         *)
(*   regen      what updateCSS did in this task: "none", "blocked" by the  *)
(*              latch, "published" a new element, "cleared" the old one    *)
(*   source     "handler" or the kind of the timer whose callback runs     *)
(*   call       the method of StyleManagerImpl the task called last:       *)
(*              "initialize", "cleanup" or "none"                          *)
(***************************************************************************)
ThemeStyleId == "minimal-theme"
CustomPresetsStyleId == "minimal-custom-presets"

\* a <style> element; rules: its text, as the rules it was written from
StyleElement(id, dataCustomPresets, rules) ==
  [id |-> id, dataCustomPresets |-> dataCustomPresets, rules |-> rules]

\* document.getElementById(id).remove(): the first element with the id goes
RECURSIVE RemoveById(_, _)
RemoveById(head, id) ==
  IF head = <<>> THEN <<>>
  ELSE IF Head(head).id = id THEN Tail(head)
  ELSE <<Head(head)>> \o RemoveById(Tail(head), id)

\* a removal that removes nothing
RemoveNoStyles(head) == head

\* querySelectorAll('style[data-custom-presets]').forEach(el => el.remove())
RemoveCustomPresetStyles(head) ==
  SelectSeq(head, LAMBDA e : ~ e.dataCustomPresets)

\* a latch that never holds
IsLatchedNever(st) == FALSE

\* part_002 lines 35-37: the re-entrancy guard of updateCSS
IsLatched(st) == st.isUpdating

\* CustomPresetCSS.updateCSS (part_002 lines 33-94)
updateCSS(st, S) ==
  IF IsLatched(st)
  THEN [st EXCEPT !.called = TRUE,
                  !.regen = IF st.regen = "none" THEN "blocked" ELSE st.regen]
  ELSE IF ~ st.active
  THEN [st EXCEPT !.called = TRUE]
  ELSE LET css == GenerateActiveCSS(S)
           removed == RemoveCustomPresetStyles(st.head)
       IN IF css = <<>>
          THEN [st EXCEPT !.called = TRUE,
                          !.head = removed,
                          !.isUpdating = FALSE,
                          !.regen = "cleared"]
          ELSE [st EXCEPT !.called = TRUE,
                          !.head = Append(removed,
                                     StyleElement(CustomPresetsStyleId, TRUE, css)),
                          !.isUpdating = TRUE,
                          !.timers = Append(st.timers,
                                       Timer(UpdatingResetDelay, "resetUpdating", 0)),
                          !.added = TRUE,
                          !.selfAdded = TRUE,
                          !.regen = "published"]

\* CustomPresetCSS.createStyleElement (part_002 lines 99-109)
createStyleElement(st) ==
  [st EXCEPT !.head = Append(RemoveById(st.head, CustomPresetsStyleId),
                             StyleElement(CustomPresetsStyleId, TRUE, <<>>)),
             !.added = TRUE]

\* CustomPresetCSS.initialize (part_002 lines 21-28)
initializeCustomPresetCSS(st, S) ==
  IF ~ st.active THEN st ELSE updateCSS(createStyleElement(st), S)

\* CustomPresetCSS.cleanup (part_002 lines 114-122)
cleanupCustomPresetCSS(st) ==
  [st EXCEPT !.head = RemoveById(RemoveCustomPresetStyles(st.head),
                                 CustomPresetsStyleId)]

(***************************************************************************)
(* StyleManagerImpl (style-manager.ts).  Of the body classes the model     *)
(* keeps the mode classes, the plugin class and the scheme classes; of the *)
(* built-in schemes it keeps the Oxygen pair.  The style and feature       *)
(* classes depend on settings no operation of the model changes.           *)
(***************************************************************************)
ThemeLight == <<"t","h","e","m","e","-","l","i","g","h","t">>
ThemeDark == <<"t","h","e","m","e","-","d","a","r","k">>
PluginTheme == <<"m","i","n","i","m","a","l","-","t","h","e","m","e">>
LIGHT_SCHEMES == {OxygenLight}
DARK_SCHEMES == {OxygenDark}

\* the text updateStyle writes into the minimal-theme element: one rule,
\* body.minimal-theme{...}, of settings no operation of the model changes
ThemeVariablesCSS ==
  <<RuleSource(<<>>, "body.minimal-theme", <<>>, "variables")>>

CustomClasses(S) ==
  {CustomSchemeId(S.presets[i].id) : i \in 1..Len(S.presets)}

\* removeLightScheme (lines 240-247)
removeLightScheme(st, S) ==
  [st EXCEPT !.body = (st.body \ LIGHT_SCHEMES) \ CustomClasses(S)]

\* removeDarkScheme (lines 252-259)
removeDarkScheme(st, S) ==
  [st EXCEPT !.body = (st.body \ DARK_SCHEMES) \ CustomClasses(S)]

\* updateLightScheme (lines 194-204)
updateLightScheme(st, S) ==
  LET st1 == removeDarkScheme(removeLightScheme(st, S), S)
      body1 == IF ThemeLight \notin st1.body
               THEN (st1.body \ {ThemeDark}) \cup {ThemeLight}
               ELSE st1.body
  IN [st1 EXCEPT !.body = body1 \cup {S.lightScheme}]

\* updateDarkScheme (lines 209-219)
updateDarkScheme(st, S) ==
  LET st1 == removeLightScheme(removeDarkScheme(st, S), S)
      body1 == IF ThemeDark \notin st1.body
               THEN (st1.body \ {ThemeLight}) \cup {ThemeDark}
               ELSE st1.body
  IN [st1 EXCEPT !.body = body1 \cup {S.darkScheme}]

\* el.innerText = css on the minimal-theme element
SetThemeText(head) ==
  [i \in 1..Len(head) |->
     IF head[i].id = ThemeStyleId /\ (\A j \in 1..(i - 1) : head[j].id # ThemeStyleId)
     THEN [head[i] EXCEPT !.rules = ThemeVariablesCSS]
     ELSE head[i]]

\* updateStyle (lines 81-146)
updateStyle(st, S) ==
  LET st1 == IF ThemeLight \in st.body THEN updateLightScheme(st, S)
             ELSE IF ThemeDark \in st.body THEN updateDarkScheme(st, S)
             ELSE updateLightScheme([st EXCEPT !.body = st.body \cup {ThemeLight}], S)
  IN IF \E i \in 1..Len(st1.head) : st1.head[i].id = ThemeStyleId
     THEN updateCSS([st1 EXCEPT !.head = SetThemeText(st1.head)], S)
     ELSE st1

\* updateCustomPresetCSS (lines 74-76)
updateCustomPresetCSS(st, S) == updateCSS(st, S)

\* loadRules (lines 306-316)
loadRules(st, S) ==
  updateStyle([st EXCEPT !.head = Append(st.head,
                                     StyleElement(ThemeStyleId, FALSE, <<>>)),
                         !.added = TRUE,
                         !.body = st.body \cup {PluginTheme}], S)

\* unloadRules (lines 321-328)
unloadRules(st) ==
  [st EXCEPT !.head = RemoveById(st.head, ThemeStyleId),
             !.body = st.body \ {PluginTheme}]

\* StyleManagerImpl.initialize (lines 29-35)
initializeStyleManager(st, S) ==
  LET st1 == loadRules(st, S)
  IN [st1 EXCEPT !.timers = Append(st1.timers,
                              Timer(WatcherSetupDelay, "setupCSSWatcher", 0)),
                 !.call = "initialize"]

\* StyleManagerImpl.initializeCustomPresets (lines 40-42)
initializeCustomPresets(st, S) == initializeCustomPresetCSS(st, S)

\* StyleManagerImpl.cleanup (lines 47-62)
cleanupStyleManager(st, S) ==
  LET st1 == removeDarkScheme(removeLightScheme(unloadRules(st), S), S)
      st2 == cleanupCustomPresetCSS(st1)
  IN [st2 EXCEPT !.observer = FALSE, !.call = "cleanup"]

\* setupCSSWatcher (lines 333-357): a new observer is connected and stored;
\* an observer the field held stays connected
setupCSSWatcher(st) ==
  [st EXCEPT !.leaked = st.leaked + (IF st.observer THEN 1 ELSE 0),
             !.observer = TRUE]

(***************************************************************************)
(* Tasks.  A handler runs as one task on the style state; when the task    *)
(* ends every connected observer whose records hold an added <style>       *)
(* schedules updateCSS after CSS_UPDATE_DELAY.  gen counts the             *)
(* regenerations between the event that started a chain and the timer.     *)
(***************************************************************************)
BeginTaskOf(source, gen) ==
  [source |-> source, head |-> headStyles, body |-> bodyClasses, isUpdating |-> isUpdating,
   timers |-> timers, active |-> isOxygenActive, observer |-> cssObserver,
   leaked |-> leakedObservers, added |-> FALSE, selfAdded |-> FALSE,
   called |-> FALSE, regen |-> "none", gen |-> gen, call |-> "none"]

BeginTask(gen) == BeginTaskOf("handler", gen)

NoTask == [source |-> "none", gen |-> 0, regen |-> "none", call |-> "none"]

ObserverCount(st) == (IF st.observer THEN 1 ELSE 0) + st.leaked

Notifications(st) ==
  IF st.added
  THEN [i \in 1..ObserverCount(st) |->
          Timer(CSS_UPDATE_DELAY, "observerUpdate",
                IF st.selfAdded THEN st.gen + 1 ELSE 0)]
  ELSE <<>>

\* the state a task leaves; changed: the task changed the settings
EndTask(st, changed) ==
  /\ headStyles' = st.head
  /\ bodyClasses' = st.body
  /\ isUpdating' = st.isUpdating
  /\ timers' = st.timers \o Notifications(st)
  /\ isOxygenActive' = st.active
  /\ cssObserver' = st.observer
  /\ leakedObservers' = st.leaked
  /\ taskRegen' = [source |-> st.source, gen |-> st.gen, regen |-> st.regen,
                   call |-> st.call]
  /\ dirty' = (st.active /\ ~ st.called /\ (dirty \/ changed))

\* the settings after the step
NewSettings ==
  SettingsOf(presetObj', colorsObj', customPresets', lightScheme', darkScheme')

(***************************************************************************)
(* a.name.localeCompare(b.name), the comparator of the list's sort.  The   *)
(* model orders by the collation's primary weights (punctuation, digits,   *)
(* letters without case) and breaks a tie by case, lower case first.       *)
(***************************************************************************)
CollationOrder ==
  <<" ", "_", "-", ",", ";", ":", "!", "?", ".", "'", "\"", "(", ")", "[",
    "]", "{", "}", "@", "*", "/", "\\", "&", "#", "%", "^", "+", "<",
    "=", ">", "|", "~", "$">> \o DigitSeq \o LowerSeq

PrimaryWeight(c) ==
  LET lc == ToLowerChar(c)
  IN IF lc \in Range(CollationOrder)
     THEN CHOOSE i \in 1..Len(CollationOrder) : CollationOrder[i] = lc
     ELSE 0

RECURSIVE ComparePrimary(_, _)
ComparePrimary(a, b) ==
  IF a = <<>> /\ b = <<>> THEN 0
  ELSE IF a = <<>> THEN -1
  ELSE IF b = <<>> THEN 1
  ELSE IF PrimaryWeight(Head(a)) < PrimaryWeight(Head(b)) THEN -1
  ELSE IF PrimaryWeight(Head(a)) > PrimaryWeight(Head(b)) THEN 1
  ELSE ComparePrimary(Tail(a), Tail(b))

RECURSIVE CompareCase(_, _)
CompareCase(a, b) ==
  IF a = <<>> \/ b = <<>> THEN 0
  ELSE IF Head(a) = Head(b) THEN CompareCase(Tail(a), Tail(b))
  ELSE IF Head(a) \in Range(LowerSeq) THEN -1
  ELSE 1

localeCompare(a, b) ==
  IF ComparePrimary(a, b) # 0 THEN ComparePrimary(a, b) ELSE CompareCase(a, b)

\* insert ref into the sorted list, after the elements that do not come later
RECURSIVE InsertByName(_, _, _)
InsertByName(pObj, sorted, ref) ==
  IF sorted = <<>> THEN <<ref>>
  ELSE IF localeCompare(pObj[Head(sorted)].name, pObj[ref].name) <= 0
  THEN <<Head(sorted)>> \o InsertByName(pObj, Tail(sorted), ref)
  ELSE <<ref>> \o sorted

\* customPresets.sort((a, b) => a.name.localeCompare(b.name)): stable
RECURSIVE SortByName(_, _)
SortByName(pObj, list) ==
  IF list = <<>> THEN <<>>
  ELSE InsertByName(pObj, SortByName(pObj, SubSeq(list, 1, Len(list) - 1)),
                    list[Len(list)])

\* what displaying the settings tab does to settings.customPresets: both the
\* scheme dropdowns (part_000 lines 57-63) and the preset list
\* (FeatureSettings.ts lines 223-230) sort the array in place
DisplaySort(pObj, list) == SortByName(pObj, list)

(***************************************************************************)
(* The heap of preset objects and ColorOverrides objects.  References are  *)
(* numbers; an object nothing refers to is dropped.                        *)
(***************************************************************************)
MaxPresets == 2
Modes == {"light", "dark"}

PresetRefs == 1..(MaxPresets + 2)
ColorsRefs == 0..(2 * (MaxPresets + 2))

IdsOf(pObj, list) == [i \in 1..Len(list) |-> pObj[list[i]].id]

FreshPresetRef(pObj) ==
  CHOOSE r \in PresetRefs :
    r \notin DOMAIN pObj /\ \A q \in 1..(r - 1) : q \in DOMAIN pObj

\* the n-th unused colors reference (n = 1 or 2)
FreshColorsRef(cObj, n) ==
  CHOOSE r \in ColorsRefs :
    /\ r \notin DOMAIN cObj
    /\ Cardinality({q \in 1..(r - 1) : q \notin DOMAIN cObj}) = n - 1

LivePresets(list, m) ==
  Range(list) \cup (IF m.preset # 0 THEN {m.preset} ELSE {})

\* the heap with only the objects the settings and the modal reach
LivePresetObjs(pObj, list, m) ==
  [r \in DOMAIN pObj \cap LivePresets(list, m) |-> pObj[r]]

LiveColorsObjs(pObj, cObj, list, m) ==
  [r \in {DefaultColorsRef}
         \cup {pObj[q].light.colors : q \in DOMAIN pObj \cap LivePresets(list, m)}
         \cup {pObj[q].dark.colors : q \in DOMAIN pObj \cap LivePresets(list, m)}
     |-> cObj[r]]

\* the step leaves the heap pObj, cObj
StoreHeap(pObj, cObj) ==
  /\ presetObj' = LivePresetObjs(pObj, customPresets', modal')
  /\ colorsObj' = LiveColorsObjs(pObj, cObj, customPresets', modal')

(***************************************************************************)
(* Modals.  Obsidian shows one modal at a time on top of the settings tab; *)
(* while it is open neither the tab nor the command palette takes input.   *)
(***************************************************************************)
NoModal ==
  [kind |-> "none", isEditing |-> FALSE, preset |-> 0,
   importEnabled |-> FALSE, viaCommand |-> FALSE, widgets |-> <<>>]

EditKeys == {"bg1"}

\* PresetEditorModal.getDefaultColorForKey(key, palette): the hex string of
\* the colour derived for the key, kept as the term it is computed from
EditorDefaultColor(key, palette) ==
  [defaultFor |-> key, base |-> palette.base, accent |-> palette.accent]

\* createColorOverride (PresetEditorModal.ts lines 347-374): the checkbox
\* and the stored originalColor of the override control of (mode, key)
OverrideWidget(pObj, cObj, ref, mode, key) ==
  LET palette == IF mode = "light" THEN pObj[ref].light ELSE pObj[ref].dark
      colors == cObj[palette.colors]
  IN IF key \in DOMAIN colors /\ colors[key] # HexString("")
     THEN [checked |-> TRUE, originalColor |-> colors[key]]
     ELSE [checked |-> FALSE, originalColor |-> EditorDefaultColor(key, palette)]

EditorWidgets(pObj, cObj, ref) ==
  [w \in Modes \X EditKeys |-> OverrideWidget(pObj, cObj, ref, w[1], w[2])]

EditorModal(pObj, cObj, ref, isEditing, viaCommand) ==
  [kind |-> "editor", isEditing |-> isEditing, preset |-> ref,
   importEnabled |-> FALSE, viaCommand |-> viaCommand,
   widgets |-> EditorWidgets(pObj, cObj, ref)]

(***************************************************************************)
(* Handlers of the settings tab, the commands and the modals               *)
(***************************************************************************)
Put(f, k, v) == [x \in DOMAIN f \cup {k} |-> IF x = k THEN v ELSE f[x]]

\* a task that ends with the style state st
RunTask(st, changed) ==
  \E done \in {st} :
     /\ EndTask(done, changed)
     /\ UNCHANGED <<cssTheme, lifecycle>>

\* a task that calls nothing of the style manager
NoStyleCall(changed) == RunTask(BeginTask(0), changed)

\* plugin.updateStyle(); plugin.updateCustomPresetCSS() on the new settings
UpdateStyles(changed) ==
  \E S \in {NewSettings} :
     RunTask(updateCustomPresetCSS(updateStyle(BeginTask(0), S), S), changed)

\* the settings tab is displayed
OpenSettingsTab ==
  /\ lifecycle = "loaded" /\ modal = NoModal /\ ~ settingsTabOpen
  /\ settingsTabOpen' = TRUE
  /\ customPresets' = DisplaySort(presetObj, customPresets)
  /\ UNCHANGED <<presetObj, colorsObj, lightScheme, darkScheme,
                 enableCustomPresets, modal, cp, probe>>
  /\ NoStyleCall(customPresets' # customPresets)

CloseSettingsTab ==
  /\ lifecycle = "loaded" /\ modal = NoModal /\ settingsTabOpen
  /\ settingsTabOpen' = FALSE
  /\ UNCHANGED <<settingsVars, modal, cp, probe>>
  /\ NoStyleCall(FALSE)

\* new PresetEditorModal(app, plugin, null, onSave).open(): the constructor
\* (PresetEditorModal.ts lines 22-37) makes the default preset
OpenPresetEditor(viaCommand) ==
  LET made == createPreset(<<"N","e","w"," ","P","r","e","s","e","t">>, <<>>,
                           IdsOf(presetObj, customPresets))
      ref == FreshPresetRef(presetObj)
      pObj == Put(presetObj, ref, made.preset)
  IN /\ lifecycle = "loaded" /\ modal = NoModal
     /\ Len(customPresets) < MaxPresets
     /\ made.status = "ok"
     /\ modal' = EditorModal(pObj, colorsObj, ref, FALSE, viaCommand)
     /\ UNCHANGED <<customPresets, lightScheme, darkScheme, enableCustomPresets,
                    settingsTabOpen, cp, probe>>
     /\ StoreHeap(pObj, colorsObj)
     /\ NoStyleCall(FALSE)

\* FeatureSettings.ts lines 206-212: the "Create new preset" button
ClickCreatePreset ==
  /\ settingsTabOpen /\ enableCustomPresets
  /\ OpenPresetEditor(FALSE)

\* preset-commands.ts lines 11-22: the create command
CommandCreatePreset ==
  /\ ~ settingsTabOpen
  /\ OpenPresetEditor(TRUE)

\* FeatureSettings.ts lines 273-276: the edit button of a list item; the
\* modal works on the very object settings.customPresets holds
EditPreset(i) ==
  /\ lifecycle = "loaded" /\ modal = NoModal
  /\ settingsTabOpen /\ enableCustomPresets
  /\ i \in 1..Len(customPresets)
  /\ modal' = EditorModal(presetObj, colorsObj, customPresets[i], TRUE, FALSE)
  /\ UNCHANGED <<settingsVars, settingsTabOpen, cp>>
  /\ NoStyleCall(FALSE)

ClickEditPreset(i) == EditPreset(i) /\ UNCHANGED probe

\* the edit touches an object of settings.customPresets
EditsStoredPreset == modal.preset \in Range(customPresets)

\* PresetEditorModal.ts onOpen: onChange of the name field
EditorSetName(value) ==
  /\ modal.kind = "editor"
  /\ UNCHANGED <<customPresets, lightScheme, darkScheme, enableCustomPresets,
                 uiVars, cp, probe>>
  /\ StoreHeap([presetObj EXCEPT ![modal.preset].name = value], colorsObj)
  /\ NoStyleCall(EditsStoredPreset /\ presetObj' # presetObj)

\* buildModeContent lines 197-218: onChange of the base or accent controls
EditorSetSeed(mode, field, hsl) ==
  LET old == IF mode = "light" THEN presetObj[modal.preset].light
             ELSE presetObj[modal.preset].dark
      new == IF field = "base" THEN [old EXCEPT !.base = hsl]
             ELSE [old EXCEPT !.accent = hsl]
  IN /\ modal.kind = "editor"
     /\ UNCHANGED <<customPresets, lightScheme, darkScheme, enableCustomPresets,
                    uiVars, cp, probe>>
     /\ StoreHeap(IF mode = "light"
                  THEN [presetObj EXCEPT ![modal.preset].light = new]
                  ELSE [presetObj EXCEPT ![modal.preset].dark = new],
                  colorsObj)
     /\ NoStyleCall(EditsStoredPreset /\ presetObj' # presetObj)

\* the colors object the override controls of a mode were built on
WidgetColorsRef(mode) ==
  IF mode = "light" THEN presetObj[modal.preset].light.colors
  ELSE presetObj[modal.preset].dark.colors

\* createColorOverride lines 392-407: toggle.onchange
EditorToggleOverride(mode, key) ==
  LET w == modal.widgets[<<mode, key>>]
      ref == WidgetColorsRef(mode)
      colors == colorsObj[ref]
      has == key \in DOMAIN colors /\ colors[key] # HexString("")
      kept == IF has THEN colors[key] ELSE w.originalColor
  IN /\ modal.kind = "editor"
     /\ <<mode, key>> \in DOMAIN modal.widgets
     /\ IF ~ w.checked
        THEN /\ modal' = [modal EXCEPT !.widgets[<<mode, key>>] =
                            [checked |-> TRUE, originalColor |-> w.originalColor]]
             /\ UNCHANGED <<customPresets, lightScheme, darkScheme,
                            enableCustomPresets, settingsTabOpen, cp, probe>>
             /\ StoreHeap(presetObj,
                          [colorsObj EXCEPT ![ref] = Put(colors, key, w.originalColor)])
        ELSE /\ modal' = [modal EXCEPT !.widgets[<<mode, key>>] =
                            [checked |-> FALSE, originalColor |-> kept]]
             /\ UNCHANGED <<customPresets, lightScheme, darkScheme,
                            enableCustomPresets, settingsTabOpen, cp, probe>>
             /\ StoreHeap(presetObj,
                          [colorsObj EXCEPT ![ref] =
                             [k \in DOMAIN colors \ {key} |-> colors[k]]])
     /\ NoStyleCall(colorsObj' # colorsObj)

\* createColorOverride lines 409-423: colorInput.onchange / oninput; the
\* input is enabled only while the checkbox is checked
EditorInputColor(mode, key, hex) ==
  LET ref == WidgetColorsRef(mode)
  IN /\ modal.kind = "editor"
     /\ <<mode, key>> \in DOMAIN modal.widgets
     /\ modal.widgets[<<mode, key>>].checked
     /\ modal' = [modal EXCEPT !.widgets[<<mode, key>>] =
                    [checked |-> TRUE, originalColor |-> hex]]
     /\ UNCHANGED <<customPresets, lightScheme, darkScheme,
                    enableCustomPresets, settingsTabOpen, cp, probe>>
     /\ StoreHeap(presetObj,
                  [colorsObj EXCEPT ![ref] = Put(colorsObj[ref], key, hex)])
     /\ NoStyleCall(colorsObj' # colorsObj)

\* customPresets.findIndex(p => p.id === id) from position i on, 0 for -1
RECURSIVE FindById(_, _, _, _)
FindById(pObj, list, id, i) ==
  IF i > Len(list) THEN 0
  ELSE IF pObj[list[i]].id = id THEN i
  ELSE FindById(pObj, list, id, i + 1)

\* an activity test that finds no preset active
isPresetActiveNever(presetId, light, dark) == FALSE

\* PresetManager.isPresetActive (PresetManager.ts lines 401-404)
isPresetActive(presetId, light, dark) ==
  light = CustomSchemeId(presetId) \/ dark = CustomSchemeId(presetId)

\* PresetEditorModal.savePreset (lines 459-481) with the onSave callback of
\* the opener (FeatureSettings.ts lines 293-315, preset-commands.ts lines
\* 15-18).  A createPreset call that never returns leaves the step disabled.
EditorSave ==
  LET ref == modal.preset
      p == presetObj[ref]
      made == createPreset(p.name, p.author, IdsOf(presetObj, customPresets))
      rejected == \/ trim(p.name) = <<>>
                  \/ (~ modal.isEditing /\ made.status = "threw")
      newId == IF modal.isEditing THEN p.id ELSE made.preset.id
      pObj == [presetObj EXCEPT ![ref].id = newId]
      idx == FindById(pObj, customPresets, newId, 1)
      list == IF modal.isEditing
              THEN (IF idx # 0 THEN [customPresets EXCEPT ![idx] = ref]
                    ELSE customPresets)
              ELSE Append(customPresets, ref)
  IN /\ modal.kind = "editor"
     /\ rejected \/ modal.isEditing \/ made.status = "ok"
     /\ IF rejected
        THEN /\ UNCHANGED <<settingsVars, uiVars, cp, probe>>
             /\ NoStyleCall(FALSE)
        ELSE /\ modal' = NoModal
             /\ customPresets' = IF modal.viaCommand THEN list
                                 ELSE DisplaySort(pObj, list)
             /\ UNCHANGED <<lightScheme, darkScheme, enableCustomPresets,
                            settingsTabOpen, cp, probe>>
             /\ StoreHeap(pObj, colorsObj)
             /\ IF ~ modal.viaCommand /\ isPresetActive(newId, lightScheme, darkScheme)
                THEN UpdateStyles(TRUE)
                ELSE NoStyleCall(TRUE)

\* the Cancel button, the close button and Escape: Modal.close()
EditorCancel ==
  /\ modal.kind = "editor"
  /\ modal' = NoModal
  /\ UNCHANGED <<customPresets, lightScheme, darkScheme, enableCustomPresets,
                 settingsTabOpen, cp, probe>>
  /\ StoreHeap(presetObj, colorsObj)
  /\ NoStyleCall(FALSE)

\* a range check that accepts every colour
ImportValidHSLAlways(hsl) == TRUE

(***************************************************************************)
(* Import.  The text of the importer is modelled by what JSON.parse makes  *)
(* of it: kind "empty" for a blank text, "garbage" for a SyntaxError, else *)
(* the parsed object.  A string member that is missing is Undefined; a     *)
(* palette lists its missing members ("self": the palette itself).         *)
(***************************************************************************)
\* the inline validateHSL of importPresetFromJSON (lines 349-354)
ImportValidHSL(hsl) ==
  /\ hsl.h >= 0 /\ hsl.h <= 360
  /\ hsl.s >= 0 /\ hsl.s <= 100
  /\ hsl.l >= 0 /\ hsl.l <= 100

Falsy(v) == v = Undefined \/ v = <<>>

\* parsed.light / parsed.dark as the imported palette (lines 366-375):
\* frameLightnessOffset is not copied
ImportedPalette(p) ==
  [base |-> p.base, accent |-> p.accent,
   colors |-> IF "colors" \in p.missing THEN <<>> ELSE p.colors,
   frameLightnessOffset |-> {}]

\* PresetManager.importPresetFromJSON (lines 333-389); the palettes of the
\* result hold their colors objects by value
importPresetFromJSON(json) ==
  IF json.kind = "garbage" THEN [status |-> "threw"]
  ELSE IF Falsy(json.id) \/ Falsy(json.name)
          \/ "self" \in json.light.missing \/ "self" \in json.dark.missing
  THEN [status |-> "threw"]
  ELSE IF {"base", "accent"} \cap (json.light.missing \cup json.dark.missing) # {}
  THEN [status |-> "threw"]
  ELSE IF ~ (ImportValidHSL(json.light.base) /\ ImportValidHSL(json.light.accent)
             /\ ImportValidHSL(json.dark.base) /\ ImportValidHSL(json.dark.accent))
  THEN [status |-> "threw"]
  ELSE IF sanitizePresetName(json.id) = <<>> \/ sanitizePresetName(json.name) = <<>>
  THEN [status |-> "threw"]
  ELSE [status |-> "ok",
        preset |-> [id |-> sanitizePresetName(json.id),
                    name |-> sanitizePresetName(json.name),
                    author |-> IF Falsy(json.author) THEN <<>> ELSE json.author,
                    version |-> "1.0.0",
                    light |-> ImportedPalette(json.light),
                    dark |-> ImportedPalette(json.dark)]]

\* JSON.stringify of a palette: every field that is not undefined is written,
\* the colors object by value
ExportedPalette(palette, cObj) ==
  [missing |-> {}, base |-> palette.base, accent |-> palette.accent,
   colors |-> cObj[palette.colors],
   frameLightnessOffset |-> palette.frameLightnessOffset]

\* PresetManager.exportPresetAsJSON (lines 326-328): the document that
\* JSON.parse reads back from JSON.stringify(preset, null, 2)
exportPresetAsJSON(preset, cObj) ==
  [kind |-> "object", id |-> preset.id, name |-> preset.name,
   author |-> preset.author, version |-> preset.version,
   light |-> ExportedPalette(preset.light, cObj),
   dark |-> ExportedPalette(preset.dark, cObj)]

\* texts pasted into the importer
JsonPalette(base, colors) ==
  [missing |-> {}, base |-> base, accent |-> HSL(200, 80, 50), colors |-> colors]

JsonPreset(id, name, light, dark) ==
  [kind |-> "object", id |-> id, name |-> name, author |-> Undefined,
   light |-> light, dark |-> dark]

PlainPalette == JsonPalette(HSL(210, 20, 50), <<>>)

ImportInputs ==
  { [kind |-> "empty"], [kind |-> "garbage"],
    JsonPreset(<<"a">>, <<"a">>, PlainPalette, PlainPalette),
    JsonPreset(<<"a", "-", "1">>, <<"b">>, PlainPalette,
               JsonPalette(HSL(0, 0, 10), [bg1 |-> HexString("#ff0000")])),
    JsonPreset(<<"A", " ", "b">>, <<"A", " ", "b">>, PlainPalette, PlainPalette),
    JsonPreset(<<"<", ">">>, <<"x">>, PlainPalette, PlainPalette),
    JsonPreset(Undefined, <<"x">>, PlainPalette, PlainPalette),
    JsonPreset(<<"x">>, <<"x">>, PlainPalette,
               [PlainPalette EXCEPT !.missing = {"self"}]),
    JsonPreset(<<"x">>, <<"x">>, [PlainPalette EXCEPT !.missing = {"accent"}],
               PlainPalette),
    JsonPreset(<<"x">>, <<"x">>, JsonPalette(HSL(361, 20, 50), <<>>),
               [PlainPalette EXCEPT !.missing = {"colors"}]) }

ImportModal(ref, enabled, viaCommand) ==
  [kind |-> "import", isEditing |-> FALSE, preset |-> ref,
   importEnabled |-> enabled, viaCommand |-> viaCommand, widgets |-> <<>>]

\* new PresetImportModal(app, plugin, onImport).open()
OpenPresetImporter(viaCommand) ==
  /\ lifecycle = "loaded" /\ modal = NoModal
  /\ Len(customPresets) < MaxPresets
  /\ modal' = ImportModal(0, FALSE, viaCommand)
  /\ UNCHANGED <<settingsVars, settingsTabOpen, cp, probe>>
  /\ NoStyleCall(FALSE)

\* FeatureSettings.ts lines 214-220: the "Import preset" button
ClickImportPreset ==
  /\ settingsTabOpen /\ enableCustomPresets
  /\ OpenPresetImporter(FALSE)

\* preset-commands.ts lines 24-33: the import command
CommandImportPreset ==
  /\ ~ settingsTabOpen
  /\ OpenPresetImporter(TRUE)

\* PresetImportModal.parseJSON (PresetColorControls.ts lines 1118-1160),
\* the onChange of the text area
ImporterInput(json) ==
  LET made == importPresetFromJSON(json)
      ref == FreshPresetRef(presetObj)
      lightRef == FreshColorsRef(colorsObj, 1)
      darkRef == FreshColorsRef(colorsObj, 2)
      pObj == Put(presetObj, ref,
                  [made.preset EXCEPT !.light.colors = lightRef,
                                      !.dark.colors = darkRef])
      cObj == Put(Put(colorsObj, lightRef, made.preset.light.colors),
                  darkRef, made.preset.dark.colors)
      conflict == FindById(presetObj, customPresets, made.preset.id, 1) # 0
  IN /\ modal.kind = "import"
     /\ UNCHANGED <<customPresets, lightScheme, darkScheme, enableCustomPresets,
                    settingsTabOpen, cp, probe>>
     /\ IF json.kind = "empty" \/ made.status = "threw"
        THEN /\ modal' = ImportModal(0, FALSE, modal.viaCommand)
             /\ StoreHeap(presetObj, colorsObj)
        ELSE /\ modal' = ImportModal(ref, ~ conflict, modal.viaCommand)
             /\ StoreHeap(pObj, cObj)
     /\ NoStyleCall(FALSE)

\* an import button that is never disabled
ImportButtonAlwaysEnabled(m) == TRUE

\* importButton.disabled (PresetColorControls.ts lines 1114, 1124, 1148):
\* a disabled button delivers no click
ImportButtonEnabled(m) == m.importEnabled

\* PresetImportModal.importPreset (lines 1285-1290) behind the enabled
\* button, with the onImport callback of the opener
ImporterImport ==
  /\ modal.kind = "import" /\ ImportButtonEnabled(modal)
  /\ IF modal.preset # 0
     THEN /\ modal' = NoModal
          /\ customPresets' =
               IF modal.viaCommand THEN Append(customPresets, modal.preset)
               ELSE DisplaySort(presetObj, Append(customPresets, modal.preset))
          /\ UNCHANGED <<lightScheme, darkScheme, enableCustomPresets,
                         settingsTabOpen, cp, probe>>
          /\ StoreHeap(presetObj, colorsObj)
          /\ NoStyleCall(TRUE)
     ELSE /\ UNCHANGED <<settingsVars, uiVars, cp, probe>>
          /\ NoStyleCall(FALSE)

ImporterCancel ==
  /\ modal.kind = "import"
  /\ modal' = NoModal
  /\ UNCHANGED <<customPresets, lightScheme, darkScheme, enableCustomPresets,
                 settingsTabOpen, cp, probe>>
  /\ StoreHeap(presetObj, colorsObj)
  /\ NoStyleCall(FALSE)

(***************************************************************************)
(* Delete (FeatureSettings.ts lines 346-390)                               *)
(***************************************************************************)
ConfirmModal(ref) ==
  [kind |-> "confirm", isEditing |-> FALSE, preset |-> ref,
   importEnabled |-> FALSE, viaCommand |-> FALSE, widgets |-> <<>>]

\* lines 368-389: the part of deletePreset after the confirmation; reset is
\* TRUE on the path of an active preset
DeleteAndRefresh(ref, reset) ==
  LET id == presetObj[ref].id
      kept == SelectSeq(customPresets, LAMBDA r : presetObj[r].id # id)
  IN /\ modal' = NoModal
     /\ lightScheme' = IF reset /\ lightScheme = CustomSchemeId(id)
                       THEN OxygenLight ELSE lightScheme
     /\ darkScheme' = IF reset /\ darkScheme = CustomSchemeId(id)
                      THEN OxygenDark ELSE darkScheme
     /\ customPresets' = DisplaySort(presetObj, kept)
     /\ UNCHANGED <<enableCustomPresets, settingsTabOpen, cp, probe>>
     /\ StoreHeap(presetObj, colorsObj)
     /\ UpdateStyles(TRUE)

\* the delete button of a list item: an inactive preset is deleted at once,
\* for an active one the confirmation modal opens
ClickDeletePreset(i) ==
  /\ lifecycle = "loaded" /\ modal = NoModal
  /\ settingsTabOpen /\ enableCustomPresets
  /\ i \in 1..Len(customPresets)
  /\ IF isPresetActive(presetObj[customPresets[i]].id, lightScheme, darkScheme)
     THEN /\ modal' = ConfirmModal(customPresets[i])
          /\ UNCHANGED <<settingsVars, settingsTabOpen, cp, probe>>
          /\ NoStyleCall(FALSE)
     ELSE DeleteAndRefresh(customPresets[i], FALSE)

\* ConfirmationModal: the confirm button resolves true
ConfirmDelete ==
  /\ modal.kind = "confirm"
  /\ DeleteAndRefresh(modal.preset, TRUE)

\* ConfirmationModal: cancel resolves false and deletePreset returns
CancelDelete ==
  /\ modal.kind = "confirm"
  /\ modal' = NoModal
  /\ UNCHANGED <<settingsVars, settingsTabOpen, cp, probe>>
  /\ NoStyleCall(FALSE)

(***************************************************************************)
(* Scheme selection                                                        *)
(***************************************************************************)
\* the values the custom options of a dropdown carry
CustomOptions == {CustomSchemeId(presetObj[r].id) : r \in Range(customPresets)}

\* part_000 lines 69-77: onChange of the light scheme dropdown
SelectLightScheme(value) ==
  /\ lifecycle = "loaded" /\ modal = NoModal /\ settingsTabOpen
  /\ value \in LIGHT_SCHEMES \cup CustomOptions
  /\ value # lightScheme
  /\ lightScheme' = value
  /\ UNCHANGED <<presetObj, colorsObj, customPresets, darkScheme,
                 enableCustomPresets, uiVars, cp, probe>>
  /\ UpdateStyles(TRUE)

\* part_000 lines 134-142: onChange of the dark scheme dropdown
SelectDarkScheme(value) ==
  /\ lifecycle = "loaded" /\ modal = NoModal /\ settingsTabOpen
  /\ value \in DARK_SCHEMES \cup CustomOptions
  /\ value # darkScheme
  /\ darkScheme' = value
  /\ UNCHANGED <<presetObj, colorsObj, customPresets, lightScheme,
                 enableCustomPresets, uiVars, cp, probe>>
  /\ UpdateStyles(TRUE)

\* FeatureSettings.ts lines 169-199: the "Enable custom presets" toggle
ToggleCustomPresets ==
  LET value == ~ enableCustomPresets
      resetLight == ~ value /\ startsWith(lightScheme, CustomPrefix)
      resetDark == ~ value /\ startsWith(darkScheme, CustomPrefix)
  IN /\ lifecycle = "loaded" /\ modal = NoModal /\ settingsTabOpen
     /\ enableCustomPresets' = value
     /\ lightScheme' = IF resetLight THEN OxygenLight ELSE lightScheme
     /\ darkScheme' = IF resetDark THEN OxygenDark ELSE darkScheme
     /\ customPresets' = DisplaySort(presetObj, customPresets)
     /\ UNCHANGED <<presetObj, colorsObj, uiVars, cp, probe>>
     /\ IF resetLight \/ resetDark THEN UpdateStyles(TRUE) ELSE NoStyleCall(FALSE)

\* preset-commands.ts lines 35-51: cycle the light scheme
CommandCycleLight ==
  LET current == FindActive(SettingsOf(presetObj, colorsObj, customPresets,
                                       lightScheme, darkScheme).presets,
                            lightScheme, 1)
      next == (current % Len(customPresets)) + 1
  IN /\ lifecycle = "loaded" /\ modal = NoModal /\ ~ settingsTabOpen
     /\ IF Len(customPresets) = 0
        THEN /\ UNCHANGED <<settingsVars, uiVars, cp, probe>>
             /\ NoStyleCall(FALSE)
        ELSE /\ lightScheme' = CustomSchemeId(presetObj[customPresets[next]].id)
             /\ UNCHANGED <<presetObj, colorsObj, customPresets, darkScheme,
                            enableCustomPresets, uiVars, cp, probe>>
             /\ RunTask(updateLightScheme(BeginTask(0), NewSettings),
                        lightScheme' # lightScheme)

\* preset-commands.ts lines 53-69: cycle the dark scheme
CommandCycleDark ==
  LET current == FindActive(SettingsOf(presetObj, colorsObj, customPresets,
                                       lightScheme, darkScheme).presets,
                            darkScheme, 1)
      next == (current % Len(customPresets)) + 1
  IN /\ lifecycle = "loaded" /\ modal = NoModal /\ ~ settingsTabOpen
     /\ IF Len(customPresets) = 0
        THEN /\ UNCHANGED <<settingsVars, uiVars, cp, probe>>
             /\ NoStyleCall(FALSE)
        ELSE /\ darkScheme' = CustomSchemeId(presetObj[customPresets[next]].id)
             /\ UNCHANGED <<presetObj, colorsObj, customPresets, lightScheme,
                            enableCustomPresets, uiVars, cp, probe>>
             /\ RunTask(updateDarkScheme(BeginTask(0), NewSettings),
                        darkScheme' # darkScheme)

(***************************************************************************)
(* MinimalTheme (main.ts lines 15-175), the environment and the timers     *)
(***************************************************************************)
MaxTimers == 4
MaxObservers == 2

CurrentSettings ==
  SettingsOf(presetObj, colorsObj, customPresets, lightScheme, darkScheme)

PendingOfKind(kind) == {i \in 1..Len(timers) : timers[i].kind = kind}

\* onload (lines 26-92): the theme state is cached, the style manager is
\* initialized under the Oxygen theme, the custom preset initialization is
\* deferred
OnLoad ==
  LET st0 == [BeginTask(0) EXCEPT !.active = cssTheme]
      st1 == IF cssTheme THEN initializeStyleManager(st0, CurrentSettings) ELSE st0
      st2 == [st1 EXCEPT !.timers = Append(st1.timers,
                           Timer(CustomPresetsInitDelay, "initCustomPresets", 0))]
  IN /\ lifecycle = "fresh"
     /\ lifecycle' = "loaded"
     /\ \E done \in {st2} : EndTask(done, FALSE)
     /\ UNCHANGED <<settingsVars, uiVars, cssTheme, cp, probe>>

\* onunload (lines 94-99): the style manager is cleaned up; Obsidian removes
\* the css-change handler and the commands; pending timers stay pending and
\* _isOxygenActive keeps its value
OnUnload ==
  /\ lifecycle = "loaded"
  /\ lifecycle' = "unloaded"
  /\ \E done \in {cleanupStyleManager(BeginTask(0), CurrentSettings)} :
       EndTask(done, FALSE)
  /\ UNCHANGED <<settingsVars, uiVars, cssTheme, cp, probe>>

\* the user switches the vault's theme; Obsidian fires css-change and the
\* handler of lines 72-91 restarts its debounce timer
SwitchTheme ==
  /\ lifecycle = "loaded"
  /\ Len(timers) < MaxTimers
  /\ leakedObservers + Cardinality(PendingOfKind("setupCSSWatcher")) < MaxObservers
  /\ cssTheme' = ~ cssTheme
  /\ timers' = Append(SelectSeq(timers, LAMBDA t : t.kind # "themeChanged"),
                      Timer(ThemeChangeDebounce, "themeChanged", 0))
  /\ UNCHANGED <<settingsVars, uiVars, headStyles, bodyClasses, isUpdating,
                 cssObserver, leakedObservers, isOxygenActive, lifecycle,
                 dirty, cp, probe>>
  /\ taskRegen' = NoTask

\* Obsidian fires css-change while the vault's theme stays what it is: the
\* handler of lines 72-91 restarts its debounce timer
CssChange ==
  /\ lifecycle = "loaded"
  /\ Len(SelectSeq(timers, LAMBDA t : t.kind # "themeChanged")) < MaxTimers
  /\ timers' = Append(SelectSeq(timers, LAMBDA t : t.kind # "themeChanged"),
                      Timer(ThemeChangeDebounce, "themeChanged", 0))
  /\ UNCHANGED <<settingsVars, uiVars, headStyles, bodyClasses, isUpdating,
                 cssObserver, leakedObservers, isOxygenActive, cssTheme,
                 lifecycle, dirty, cp, probe>>
  /\ taskRegen' = NoTask

\* something else (Obsidian, a snippet, another plugin) appends a <style>
\* element to document.head: every connected observer is notified
ExternalStyleAdded ==
  LET st == [BeginTask(0) EXCEPT !.added = TRUE]
  IN /\ lifecycle \in {"loaded", "unloaded"}
     /\ ObserverCount(st) > 0
     /\ Len(timers) + ObserverCount(st) <= MaxTimers
     /\ RunTask(st, FALSE)
     /\ UNCHANGED <<settingsVars, uiVars, cp, probe>>

\* time passes: no timer is due, every timer comes CSS_UPDATE_DELAY closer
Tick ==
  /\ timers # <<>>
  /\ \A i \in 1..Len(timers) : timers[i].left > 0
  /\ timers' = [i \in 1..Len(timers) |->
                  [timers[i] EXCEPT !.left = timers[i].left - CSS_UPDATE_DELAY]]
  /\ UNCHANGED <<settingsVars, uiVars, headStyles, bodyClasses, isUpdating,
                 cssObserver, leakedObservers, isOxygenActive, cssTheme,
                 lifecycle, dirty, cp, probe>>
  /\ taskRegen' = NoTask

\* the timer that fires next: the first due one in registration order
DueTimer ==
  IF \E i \in 1..Len(timers) : timers[i].left = 0
  THEN CHOOSE i \in 1..Len(timers) :
         timers[i].left = 0 /\ \A j \in 1..(i - 1) : timers[j].left # 0
  ELSE 0

IsDue(kind) == DueTimer # 0 /\ timers[DueTimer].kind = kind

\* the style state the callback of the due timer starts on
BeginTimerTask ==
  [BeginTaskOf(timers[DueTimer].kind, timers[DueTimer].gen) EXCEPT
     !.timers = [i \in 1..(Len(timers) - 1) |->
                   IF i < DueTimer THEN timers[i] ELSE timers[i + 1]]]

\* a callback that leaves the latch as it is
FireResetUpdatingKeepsLatch ==
  /\ IsDue("resetUpdating")
  /\ RunTask(BeginTimerTask, FALSE)
  /\ UNCHANGED <<settingsVars, uiVars, cp, probe>>

\* part_002 lines 86-88: the latch is released
FireResetUpdating ==
  /\ IsDue("resetUpdating")
  /\ RunTask([BeginTimerTask EXCEPT !.isUpdating = FALSE], FALSE)
  /\ UNCHANGED <<settingsVars, uiVars, cp, probe>>

\* style-manager.ts lines 346-349: the update an observer scheduled
FireObserverUpdate ==
  /\ IsDue("observerUpdate")
  /\ RunTask(updateCSS(BeginTimerTask, CurrentSettings), FALSE)
  /\ UNCHANGED <<settingsVars, uiVars, cp, probe>>

\* main.ts lines 62-66: the deferred initialization of the custom presets
FireInitCustomPresets ==
  /\ IsDue("initCustomPresets")
  /\ RunTask(IF isOxygenActive
             THEN initializeCustomPresets(BeginTimerTask, CurrentSettings)
             ELSE BeginTimerTask, FALSE)
  /\ UNCHANGED <<settingsVars, uiVars, cp, probe>>

\* style-manager.ts lines 32-34: the deferred setup of the observer
FireSetupCSSWatcher ==
  /\ IsDue("setupCSSWatcher")
  /\ RunTask(setupCSSWatcher(BeginTimerTask), FALSE)
  /\ UNCHANGED <<settingsVars, uiVars, cp, probe>>

\* a handler that initializes under the Oxygen theme whatever the cached state
FireThemeChangedUncached ==
  LET st == BeginTimerTask
  IN /\ IsDue("themeChanged")
     /\ RunTask(IF ~ cssTheme
                THEN cleanupStyleManager([st EXCEPT !.active = FALSE], CurrentSettings)
                ELSE initializeStyleManager([st EXCEPT !.active = TRUE], CurrentSettings),
                FALSE)
     /\ UNCHANGED <<settingsVars, uiVars, cp, probe>>

\* main.ts lines 76-89: the debounced css-change handler
FireThemeChanged ==
  LET st == BeginTimerTask
  IN /\ IsDue("themeChanged")
     /\ RunTask(IF isOxygenActive /\ ~ cssTheme
                THEN cleanupStyleManager([st EXCEPT !.active = FALSE], CurrentSettings)
                ELSE IF ~ isOxygenActive /\ cssTheme
                THEN initializeStyleManager([st EXCEPT !.active = TRUE], CurrentSettings)
                ELSE st, FALSE)
     /\ UNCHANGED <<settingsVars, uiVars, cp, probe>>

(***************************************************************************)
(* Initial states                                                          *)
(***************************************************************************)
\* DEFAULT_SETTINGS (settings-interface.ts lines 44-79) and the one colors
\* object that exists from the start, that of DEFAULT_COLOR_PALETTE
InitSettings ==
  /\ presetObj = <<>>
  /\ colorsObj = [r \in {DefaultColorsRef} |-> <<>>]
  /\ customPresets = <<>>
  /\ lightScheme = OxygenLight
  /\ darkScheme = OxygenDark
  /\ enableCustomPresets = TRUE

InitUI ==
  /\ modal = NoModal
  /\ settingsTabOpen = FALSE

\* the plugin before onload; Obsidian has put the mode class on the body
InitStyle(theme) ==
  /\ headStyles = <<>>
  /\ bodyClasses = {ThemeLight}
  /\ isUpdating = FALSE
  /\ timers = <<>>
  /\ cssObserver = FALSE
  /\ leakedObservers = 0
  /\ isOxygenActive = FALSE
  /\ cssTheme = theme
  /\ lifecycle = "fresh"
  /\ dirty = FALSE
  /\ taskRegen = NoTask

\* the plugin loaded under another theme, its deferred initialization done:
\* onload has initialized nothing
InitLoadedElsewhere ==
  /\ headStyles = <<>>
  /\ bodyClasses = {ThemeLight}
  /\ isUpdating = FALSE
  /\ timers = <<>>
  /\ cssObserver = FALSE
  /\ leakedObservers = 0
  /\ isOxygenActive = FALSE
  /\ cssTheme = FALSE
  /\ lifecycle = "loaded"
  /\ dirty = FALSE
  /\ taskRegen = NoTask

NoProbe == [key |-> "none"]

(***************************************************************************)
(* Spec: the preset registry under the settings tab, the commands and the  *)
(* modals, the plugin loaded while another theme is active and the schemes *)
(* left at their defaults                                                  *)
(***************************************************************************)
EditorNames == { <<"a">>, <<"A">>, <<"<">>, <<" ">> }

Init ==
  /\ InitSettings /\ InitUI /\ InitLoadedElsewhere
  /\ cp = cpIdle
  /\ probe = NoProbe

Next ==
  \/ OpenSettingsTab
  \/ CloseSettingsTab
  \/ ClickCreatePreset
  \/ CommandCreatePreset
  \/ \E i \in 1..MaxPresets : ClickEditPreset(i)
  \/ \E value \in EditorNames : EditorSetName(value)
  \/ EditorSave
  \/ EditorCancel
  \/ ClickImportPreset
  \/ CommandImportPreset
  \/ \E json \in ImportInputs : ImporterInput(json)
  \/ ImporterImport
  \/ ImporterCancel
  \/ \E i \in 1..MaxPresets : ClickDeletePreset(i)

Spec == Init /\ [][Next]_vars

(***************************************************************************)
(* SpecSchemes: presets are created, renamed, selected as schemes, cycled  *)
(* and deleted; the plugin is loaded while another theme is active         *)
(***************************************************************************)
SchemeNames == { <<"a">>, <<"A">> }

NextSchemes ==
  \/ OpenSettingsTab
  \/ CloseSettingsTab
  \/ ClickCreatePreset
  \/ CommandCreatePreset
  \/ \E value \in SchemeNames : EditorSetName(value)
  \/ EditorSave
  \/ EditorCancel
  \/ \E i \in 1..MaxPresets : ClickDeletePreset(i)
  \/ ConfirmDelete
  \/ CancelDelete
  \/ \E value \in LIGHT_SCHEMES \cup CustomOptions : SelectLightScheme(value)
  \/ \E value \in DARK_SCHEMES \cup CustomOptions : SelectDarkScheme(value)
  \/ ToggleCustomPresets
  \/ CommandCycleLight
  \/ CommandCycleDark

SpecSchemes == Init /\ [][NextSchemes]_vars

(***************************************************************************)
(* SpecPalette: presets are created and their palettes edited in the       *)
(* editor; the plugin is loaded while another theme is active              *)
(***************************************************************************)
\* the seed edits explored: the base of either mode, the accent of the dark one
SeedEdits == { <<"light", "base">>, <<"dark", "base">>, <<"dark", "accent">> }
SeedInputs == { HSL(0, 0, 96) }
HexInputs == { HexString("#ff0000") }

NextPalette ==
  \/ OpenSettingsTab
  \/ ClickCreatePreset
  \/ \E i \in 1..MaxPresets : ClickEditPreset(i)
  \/ \E edit \in SeedEdits, hsl \in SeedInputs :
       EditorSetSeed(edit[1], edit[2], hsl)
  \/ \E mode \in Modes, key \in EditKeys : EditorToggleOverride(mode, key)
  \/ \E mode \in Modes, key \in EditKeys, hex \in HexInputs :
       EditorInputColor(mode, key, hex)
  \/ EditorSave
  \/ EditorCancel

SpecPalette == Init /\ [][NextPalette]_vars

(***************************************************************************)
(* SpecCancel: stored presets are opened in the editor, renamed and        *)
(* recoloured, and the editor is saved or cancelled; probe keeps the field *)
(* values the stored presets had when the editor was opened                *)
(***************************************************************************)
\* the stored presets by value: every field, the colors objects dereferenced
StoredValues ==
  [i \in 1..Len(customPresets) |->
     [presetObj[customPresets[i]] EXCEPT
        !.light = [@ EXCEPT !.colors = colorsObj[@]],
        !.dark = [@ EXCEPT !.colors = colorsObj[@]]]]

\* the edit button, with the stored values of that moment remembered
ClickEditPresetObserved(i) ==
  /\ EditPreset(i)
  /\ probe' = [key |-> "opened", stored |-> StoredValues]

CancelNames == { <<"<">> }

NextCancel ==
  \/ OpenSettingsTab
  \/ ClickCreatePreset
  \/ \E i \in 1..MaxPresets : ClickEditPresetObserved(i)
  \/ \E value \in CancelNames : EditorSetName(value)
  \/ \E hsl \in SeedInputs : EditorSetSeed("light", "base", hsl)
  \/ \E key \in EditKeys : EditorToggleOverride("light", key)
  \/ EditorSave
  \/ EditorCancel

SpecCancel == Init /\ [][NextCancel]_vars

(***************************************************************************)
(* SpecCreate: one call of createPreset, its loop taken step by step       *)
(***************************************************************************)
InitCreate ==
  /\ InitSettings /\ InitUI /\ InitLoadedElsewhere
  /\ probe = NoProbe
  /\ \E name \in CreateNames, existing \in CreateExisting :
       cp = [cpIdle EXCEPT !.pc = "start", !.name = name, !.existing = existing]

NextCreate ==
  \/ CreateEnter
  \/ CreateLoopExit
  \/ CreateLoopIterate
  \/ CreateAgain

SpecCreate == InitCreate /\ [][NextCreate]_vars

(***************************************************************************)
(* SpecDerive: the token colours of the CSS generators and of              *)
(* getDefaultColorForKey, computed for one base colour and one token       *)
(***************************************************************************)
ProbeBases ==
  { HSL(h, s, l) : h \in {0, 210, 360}, s \in {0, 5, 15, 20, 100},
                   l \in {0, 9, 50, 51, 96, 100} }

InitDerive ==
  /\ InitSettings /\ InitUI /\ InitLoadedElsewhere
  /\ cp = cpIdle
  /\ \E base \in ProbeBases, key \in DerivedTokens :
       probe = [stage |-> "input", key |-> key, base |-> base]

DeriveToken ==
  /\ probe.stage = "input"
  /\ probe' = [stage |-> "derived", key |-> probe.key, base |-> probe.base,
               generated |-> GeneratorTokenHSL(probe.key, probe.base),
               default |-> DefaultTokenHSL(probe.key, probe.base)]
  /\ UNCHANGED <<settingsVars, uiVars, styleVars, cp>>

NextDerive == DeriveToken

SpecDerive == InitDerive /\ [][NextDerive]_vars

(***************************************************************************)
(* SpecStyle: the plugin is loaded with a stored preset, schemes are       *)
(* selected, the theme is switched, styles are added to the head by        *)
(* others, timers fire                                                     *)
(***************************************************************************)
StoredPreset(id, base, lightRef, darkRef) ==
  [id |-> id, name |-> id, author |-> <<>>, version |-> "1.0.0",
   light |-> [DEFAULT_COLOR_PALETTE EXCEPT !.base = base, !.colors = lightRef],
   dark |-> [DEFAULT_COLOR_PALETTE EXCEPT !.colors = darkRef]]

\* settings as loadData returns them: every object is its own
InitStoredPresets ==
  /\ presetObj = <<StoredPreset(<<"a">>, HSL(210, 20, 96), 1, 2)>>
  /\ colorsObj = [r \in 0..2 |-> IF r = 1 THEN [bg1 |-> HexString("#ff0000")]
                                 ELSE <<>>]
  /\ customPresets = <<1>>
  /\ lightScheme \in {OxygenLight, CustomSchemeId(<<"a">>)}
  /\ darkScheme \in {OxygenDark, CustomSchemeId(<<"a">>)}
  /\ enableCustomPresets = TRUE

InitStyleSpec ==
  /\ InitStoredPresets /\ InitUI
  /\ \E theme \in BOOLEAN : InitStyle(theme)
  /\ cp = cpIdle
  /\ probe = NoProbe

NextStyle ==
  \/ OnLoad
  \/ SwitchTheme
  \/ ExternalStyleAdded
  \/ Tick
  \/ FireResetUpdating
  \/ FireObserverUpdate
  \/ FireInitCustomPresets
  \/ FireSetupCSSWatcher
  \/ FireThemeChanged
  \/ OpenSettingsTab
  \/ \E value \in LIGHT_SCHEMES \cup CustomOptions : SelectLightScheme(value)
  \/ \E value \in DARK_SCHEMES \cup CustomOptions : SelectDarkScheme(value)

SpecStyle == InitStyleSpec /\ [][NextStyle]_vars

(***************************************************************************)
(* PresetManager.updatePreset (PresetManager.ts lines 286-314).  A Partial *)
(* is a record whose id and name are strings or Undefined (the key is      *)
(* absent); existingPresets is a sequence of presets by value.             *)
(***************************************************************************)
\* if (updates.id), if (updates.name): a string is truthy unless empty
Truthy(value) == value # Undefined /\ value # <<>>

\* { ...existingPreset, ...updates }: the keys updates holds replace
Spread(preset, updates) ==
  [preset EXCEPT !.id = IF updates.id = Undefined THEN @ ELSE updates.id,
                 !.name = IF updates.name = Undefined THEN @ ELSE updates.name]

\* existingPresets.find(p => p.id === id): the index of the first match
\* from position i on, 0 for undefined
RECURSIVE FindPreset(_, _, _)
FindPreset(existingPresets, id, i) ==
  IF i > Len(existingPresets) THEN 0
  ELSE IF existingPresets[i].id = id THEN i
  ELSE FindPreset(existingPresets, id, i + 1)

updatePreset(id, updates, existingPresets) ==
  LET found == FindPreset(existingPresets, id, 1)
      existingIds == [i \in 1..Len(existingPresets) |-> existingPresets[i].id]
      updatedPreset == Spread(existingPresets[found], updates)
  IN IF found = 0 THEN [status |-> "threw", error |-> "not found"]
     ELSE IF /\ Truthy(updates.id) /\ updates.id # id
             /\ ~ validatePresetId(updates.id, existingIds, id)
          THEN [status |-> "threw", error |-> "invalid id"]
     ELSE IF Truthy(updates.name)
          THEN IF sanitizePresetName(updates.name) = <<>>
               THEN [status |-> "threw", error |-> "empty name"]
               ELSE [status |-> "ok",
                     preset |-> [updatedPreset EXCEPT
                                   !.name = sanitizePresetName(updates.name)]]
     ELSE [status |-> "ok", preset |-> updatedPreset]

\* the calls of updatePreset explored
UpdateIds == { <<"a">>, <<"b">>, <<"c">> }
UpdateNewIds == { Undefined, <<>>, <<"a">>, <<"b">>, <<"c">>, <<"A">>, Rep("a", 51) }
UpdateNames == { Undefined, <<>>, <<" ">>, <<"n">>, <<"<", "x", " ">> }
UpdateExisting ==
  LET P(id) == [id |-> id, name |-> <<"o", "l", "d">>]
  IN { <<>>, <<P(<<"a">>)>>, <<P(<<"a">>), P(<<"b">>)>>,
       <<P(<<"b">>), P(<<"a">>)>> }

InitUpdate ==
  /\ InitSettings /\ InitUI /\ InitLoadedElsewhere
  /\ cp = cpIdle
  /\ \E id \in UpdateIds, newId \in UpdateNewIds, name \in UpdateNames,
        existing \in UpdateExisting :
       probe = [stage |-> "update", id |-> id,
                updates |-> [id |-> newId, name |-> name],
                existing |-> existing]

CallUpdatePreset ==
  /\ probe.stage = "update"
  /\ probe' = [stage |-> "updated", id |-> probe.id, updates |-> probe.updates,
               existing |-> probe.existing,
               result |-> updatePreset(probe.id, probe.updates, probe.existing)]
  /\ UNCHANGED <<settingsVars, uiVars, styleVars, cp>>

NextUpdate == CallUpdatePreset

SpecUpdate == InitUpdate /\ [][NextUpdate]_vars

(***************************************************************************)
(* SpecImport: importPresetFromJSON called on documents that lack members, *)
(* hold components at and beyond the ends of their ranges, or hold ids and *)
(* names that sanitize to nothing                                          *)
(***************************************************************************)
ImportStrings == { Undefined, <<>>, <<" ">>, <<"<", ">">>, <<"a">> }

ImportColours ==
  { HSL(h, 20, 50) : h \in {-1, 0, 360, 361} }
    \cup { HSL(210, c, 50) : c \in {-1, 0, 100, 101} }
    \cup { HSL(210, 20, c) : c \in {-1, 0, 100, 101} }

ImportPalettes ==
  { [PlainPalette EXCEPT !.missing = {m}] : m \in {"self", "base", "accent", "colors"} }
    \cup { [PlainPalette EXCEPT !.base = c] : c \in ImportColours }
    \cup { [PlainPalette EXCEPT !.accent = c] : c \in ImportColours }

InitImport ==
  /\ InitSettings /\ InitUI /\ InitLoadedElsewhere
  /\ cp = cpIdle
  /\ \E id \in ImportStrings, name \in ImportStrings,
        light \in ImportPalettes, dark \in ImportPalettes :
       probe = [stage |-> "import", json |-> JsonPreset(id, name, light, dark)]

CallImportPresetFromJSON ==
  /\ probe.stage = "import"
  /\ probe' = [stage |-> "imported", json |-> probe.json,
               result |-> importPresetFromJSON(probe.json)]
  /\ UNCHANGED <<settingsVars, uiVars, styleVars, cp>>

NextImport == CallImportPresetFromJSON

SpecImport == InitImport /\ [][NextImport]_vars

(***************************************************************************)
(* PresetManager.deletePreset as a pure function (specification SpecDelete) *)
(***************************************************************************)
\* a deletion that removes nothing
deletePresetKeepsAll(id, existingPresets) == existingPresets

\* existingPresets.filter(preset => preset.id !== id): a new array
deletePreset(id, existingPresets) ==
  SelectSeq(existingPresets, LAMBDA preset : preset.id # id)

DeleteIds == { <<"a">>, <<"b">>, <<"c">>, <<"x">> }

\* lists of up to three presets; two of the presets share the id "a"
DeleteExisting ==
  LET P(id, name) == [id |-> id, name |-> name]
      Presets == { P(<<"a">>, <<"1">>), P(<<"b">>, <<"2">>),
                   P(<<"a">>, <<"3">>), P(<<"c">>, <<"4">>) }
  IN UNION { [1..n -> Presets] : n \in 0..3 }

InitDelete ==
  /\ InitSettings /\ InitUI /\ InitLoadedElsewhere
  /\ cp = cpIdle
  /\ \E id \in DeleteIds, existing \in DeleteExisting :
       probe = [stage |-> "delete", id |-> id, given |-> existing,
                existing |-> existing]

\* the call: the argument array stays as it is, filter returns another
CallDeletePreset ==
  /\ probe.stage = "delete"
  /\ probe' = [stage |-> "deleted", id |-> probe.id, given |-> probe.given,
               existing |-> probe.existing,
               result |-> deletePreset(probe.id, probe.existing)]
  /\ UNCHANGED <<settingsVars, uiVars, styleVars, cp>>

\* the call again, on the list the first call returned
CallDeletePresetAgain ==
  /\ probe.stage = "deleted"
  /\ probe' = [stage |-> "deleted twice", id |-> probe.id,
               given |-> probe.given, existing |-> probe.existing,
               result |-> probe.result,
               again |-> deletePreset(probe.id, probe.result)]
  /\ UNCHANGED <<settingsVars, uiVars, styleVars, cp>>

NextDelete == CallDeletePreset \/ CallDeletePresetAgain

SpecDelete == InitDelete /\ [][NextDelete]_vars

(***************************************************************************)
(* hslToHex followed by hexToHSL (specification SpecRoundTrip)             *)
(***************************************************************************)
\* colours of the grid whose round trip rounds no half-way quantity
RoundTripColours ==
  { c \in { HSL(h, s, l) :
              h \in {0, 1, 30, 59, 60, 61, 120, 180, 210, 240, 300, 359, 360},
              s \in {0, 1, 20, 50, 80, 99, 100},
              l \in {0, 1, 12, 25, 49, 50, 51, 75, 96, 99, 100} } :
      RoundsExactly(c) }

InitRoundTrip ==
  /\ InitSettings /\ InitUI /\ InitLoadedElsewhere
  /\ cp = cpIdle
  /\ \E hsl \in RoundTripColours : probe = [stage |-> "colour", hsl |-> hsl]

CallHslToHex ==
  /\ probe.stage = "colour"
  /\ probe' = [stage |-> "hex", hsl |-> probe.hsl, hex |-> hslToHex(probe.hsl)]
  /\ UNCHANGED <<settingsVars, uiVars, styleVars, cp>>

CallHexToHSL ==
  /\ probe.stage = "hex"
  /\ probe' = [stage |-> "back", hsl |-> probe.hsl, hex |-> probe.hex,
               back |-> hexToHSL(probe.hex)]
  /\ UNCHANGED <<settingsVars, uiVars, styleVars, cp>>

NextRoundTrip == CallHslToHex \/ CallHexToHSL

SpecRoundTrip == InitRoundTrip /\ [][NextRoundTrip]_vars

(***************************************************************************)
(* The two CSS generators as pure functions (specification SpecGenerate):  *)
(* a preset and a mode are drawn, both generators are called with them.    *)
(***************************************************************************)
GenerateIds == { <<"a">>, <<"s", "u", "n", "s", "e", "t">> }

\* ColorOverrides objects: none of the keys, one key with a colour or with
\* the empty string, every key
GenerateColors ==
  { [k \in {} |-> HexString("")] }
  \cup { [k \in {key} |-> HexString(v)] :
           key \in Range(OverrideKeys), v \in {"#123456", ""} }
  \cup { [k \in Range(OverrideKeys) |-> HexString("#abcdef")] }

GenerateLightBases == { HSL(0, 0, 100), HSL(210, 20, 96), HSL(40, 5, 51) }
GenerateDarkBases == { HSL(220, 15, 12), HSL(0, 0, 0) }

InitGenerate ==
  /\ InitSettings /\ InitUI /\ InitLoadedElsewhere
  /\ cp = cpIdle
  /\ \E id \in GenerateIds, mode \in {"light", "dark"},
        lightBase \in GenerateLightBases, darkBase \in GenerateDarkBases,
        lightColors \in GenerateColors,
        darkColors \in { [k \in {} |-> HexString("")],
                         [k \in {"bg1", "pink"} |-> HexString("#654321")] },
        hasOffset \in BOOLEAN :
       probe =
         [stage |-> "generate", mode |-> mode,
          preset |->
            [id |-> id,
             light |-> [base |-> lightBase, accent |-> HSL(200, 80, 50),
                        colors |-> 1,
                        frameLightnessOffset |->
                          IF hasOffset THEN {30} ELSE {}],
             dark |-> [base |-> darkBase, accent |-> HSL(30, 90, 60),
                       colors |-> 2,
                       frameLightnessOffset |->
                         IF hasOffset THEN {0 - 25} ELSE {}],
             lightColors |-> lightColors,
             darkColors |-> darkColors]]

CallGenerateCSS ==
  /\ probe.stage = "generate"
  /\ LET preset == probe.preset
         mode == probe.mode
     IN probe' =
          [stage |-> "generated", mode |-> mode, preset |-> preset,
           css |-> generateCSS(preset, mode),
           native |->
             generatePresetCSS(preset.id, ModePalette(preset, mode),
                               IF mode = "light" THEN preset.lightColors
                               ELSE preset.darkColors,
                               mode)]
  /\ UNCHANGED <<settingsVars, uiVars, styleVars, cp>>

NextGenerate == CallGenerateCSS

SpecGenerate == InitGenerate /\ [][NextGenerate]_vars

(***************************************************************************)
(* SpecLoad: the plugin is loaded under the Oxygen theme and the theme     *)
(* stays; schemes are selected, styles are added to the head by others,    *)
(* timers fire.  FairSpecLoad: time passes and due timers fire.            *)
(***************************************************************************)
InitLoad ==
  /\ InitStoredPresets /\ InitUI /\ InitStyle(TRUE)
  /\ cp = cpIdle
  /\ probe = NoProbe

NextLoad ==
  \/ OnLoad
  \/ ExternalStyleAdded
  \/ Tick
  \/ FireResetUpdating
  \/ FireObserverUpdate
  \/ FireInitCustomPresets
  \/ FireSetupCSSWatcher
  \/ OpenSettingsTab
  \/ \E value \in LIGHT_SCHEMES \cup CustomOptions : SelectLightScheme(value)
  \/ \E value \in DARK_SCHEMES \cup CustomOptions : SelectDarkScheme(value)

SpecLoad == InitLoad /\ [][NextLoad]_vars

(***************************************************************************)
(* SpecLife: the plugin from onload to onunload under theme switches, the  *)
(* cycle commands and the timers, with one stored preset                   *)
(***************************************************************************)
NextLife ==
  \/ OnLoad
  \/ OnUnload
  \/ SwitchTheme
  \/ CssChange
  \/ ExternalStyleAdded
  \/ Tick
  \/ FireResetUpdating
  \/ FireObserverUpdate
  \/ FireInitCustomPresets
  \/ FireSetupCSSWatcher
  \/ FireThemeChanged
  \/ CommandCycleLight
  \/ CommandCycleDark

SpecLife == InitStyleSpec /\ [][NextLife]_vars

\* the event loop runs a due callback, and time does not stop
TimerFairness ==
  /\ WF_vars(Tick)
  /\ WF_vars(FireResetUpdating)
  /\ WF_vars(FireObserverUpdate)
  /\ WF_vars(FireInitCustomPresets)
  /\ WF_vars(FireSetupCSSWatcher)

FairSpecLoad == SpecLoad /\ TimerFairness

(***************************************************************************)
(* Claims                                                                  *)
(***************************************************************************)
\* C2: createPreset's uniqueness loop terminates for every non-empty
\* sanitized name, whatever the length of the slug and the number of
\* collisions.  While the loop runs, the candidates still to be tested are
\* those from cp.counter - 1 on; by the argument at CreatePresetLoop the loop
\* ends exactly when one of the next Len(cp.existing) + 2 of them is valid.
C2_CreatePresetLoopTerminates ==
  cp.pc = "loop" =>
    \E n \in (cp.counter - 1)..(cp.counter + Len(cp.existing)) :
      validatePresetId(CandidateId(cp.sanitizedName, n), cp.existing, Undefined)

StoredId(i) == presetObj[customPresets[i]].id

\* C1: no two elements of settings.customPresets have the same id, whatever
\* sequence of create, import, edit and delete produced the list.
C1_PresetIdsUnique ==
  \A i, j \in 1..Len(customPresets) : i # j => StoredId(i) # StoredId(j)

\* two presets whose names give the same slug are stored: the second id
\* carries the counter suffix
C1_CollisionResolved ==
  /\ Len(customPresets) = 2
  /\ \E i, j \in 1..2 :
       /\ StoredId(i) = <<"a">>
       /\ StoredId(j) = <<"a", "-", "1">>
       /\ generatePresetId(presetObj[customPresets[j]].name) = <<"a">>

\* C3: the preset importPresetFromJSON returns (the importer's parsedPreset)
\* has an id that matches ^[a-z0-9-]+$ and is 1 to 50 characters long.
C3_ImportedIdWellFormed ==
  (modal.kind = "import" /\ modal.preset # 0) =>
    validatePresetIdFormat(presetObj[modal.preset].id)

\* C10: for each mode at most one stored preset is the active one, i.e. has
\* "minimal-custom-" + id equal to the mode's scheme setting.
C10_AtMostOneActivePerMode ==
  \A i, j \in 1..Len(customPresets) :
    /\ (lightScheme = CustomSchemeId(StoredId(i))
        /\ lightScheme = CustomSchemeId(StoredId(j))) => i = j
    /\ (darkScheme = CustomSchemeId(StoredId(i))
        /\ darkScheme = CustomSchemeId(StoredId(j))) => i = j

\* two presets are stored, one is the light scheme and the other the dark one
C10_BothModesCustom ==
  /\ Len(customPresets) = 2
  /\ \E i, j \in 1..2 :
       /\ i # j
       /\ lightScheme = CustomSchemeId(StoredId(i))
       /\ darkScheme = CustomSchemeId(StoredId(j))

\* the palette of a mode as the generator reads it: seeds and overrides
PaletteOf(pObj, cObj, ref, mode) ==
  LET palette == IF mode = "light" THEN pObj[ref].light ELSE pObj[ref].dark
  IN [base |-> palette.base, accent |-> palette.accent,
      colors |-> cObj[palette.colors]]

\* a step of the open editor that changes the palette of the given mode of
\* the preset being edited
EditsMode(mode) ==
  /\ modal.kind = "editor" /\ modal'.kind = "editor"
  /\ PaletteOf(presetObj', colorsObj', modal.preset, mode)
       # PaletteOf(presetObj, colorsObj, modal.preset, mode)

OtherMode(mode) == IF mode = "light" THEN "dark" ELSE "light"

\* the step leaves alone the other mode of the edited preset, every other
\* preset and the colors object of DEFAULT_COLOR_PALETTE
EditFrame(mode) ==
  /\ PaletteOf(presetObj', colorsObj', modal.preset, OtherMode(mode))
       = PaletteOf(presetObj, colorsObj, modal.preset, OtherMode(mode))
  /\ \A r \in Range(customPresets) \ {modal.preset} :
       \A m \in Modes :
         PaletteOf(presetObj', colorsObj', r, m) = PaletteOf(presetObj, colorsObj, r, m)
  /\ colorsObj'[DefaultColorsRef] = colorsObj[DefaultColorsRef]

\* C4: an edit of one mode's seeds or overrides changes only that mode of
\* the edited preset: the other mode, the other presets and
\* DEFAULT_COLOR_PALETTE stay as they were, also for a preset just created.
C4_EditChangesOneMode ==
  [][\A mode \in Modes : EditsMode(mode) => EditFrame(mode)]_vars

\* C5: for every token bg1 .. tx4 and every base colour the h, s and l the
\* CSS generator puts into the stylesheet are those getDefaultColorForKey
\* derives for the editor's swatch.
C5_GeneratorMatchesDefaults ==
  probe.stage = "derived" => probe.generated = probe.default

\* the custom-preset <style> elements of the head
CustomPresetElements == SelectSeq(headStyles, LAMBDA e : e.dataCustomPresets)

\* the text of the injected custom-preset stylesheet
RECURSIVE InjectedRules(_)
InjectedRules(elements) ==
  IF elements = <<>> THEN <<>>
  ELSE Head(elements).rules \o InjectedRules(Tail(elements))

InjectedCSS == RenderCSS(InjectedRules(CustomPresetElements))

\* the CSS generated from the current settings
ExpectedCSS == RenderCSS(GenerateActiveCSS(CurrentSettings))

Regenerated == taskRegen.regen \in {"published", "cleared"}

\* C6: the update an observer schedules because updateCSS appended its own
\* element (a timer of gen 1 or more) neither removes nor inserts the
\* custom-preset element, so no chain of updates gets longer than one
\* regeneration.
C6_OwnInsertionDoesNotRegenerate ==
  /\ \A i \in 1..Len(timers) : timers[i].gen <= 1
  /\ (taskRegen.source = "observerUpdate" /\ taskRegen.gen >= 1) => ~ Regenerated

\* the update scheduled for updateCSS's own insertion has just run against
\* the latch
C6_OwnUpdateRan ==
  /\ taskRegen.source = "observerUpdate" /\ taskRegen.gen = 1
  /\ taskRegen.regen = "blocked"
  /\ isOxygenActive

\* C7: after a load under the Oxygen theme and after any change that called
\* updateStyle or updateCustomPresetCSS, once no timer is pending the
\* injected stylesheet is the CSS generated from the current settings.
C7_StylesheetFollowsSettings ==
  (lifecycle = "loaded" /\ isOxygenActive /\ timers = <<>> /\ ~ dirty) =>
    InjectedCSS = ExpectedCSS

\* C8: whenever updateCSS has set isUpdating, isUpdating is false again
\* later: the path with empty css clears it before returning, the publishing
\* path leaves a timer that clears it.  (generatePresetCSS returns for every
\* preset the editor and the importer store: both palettes have base and
\* accent.)
C8_LatchReleased == isUpdating ~> ~ isUpdating

\* the latch is set and its reset timer is pending
C8_LatchHeld ==
  /\ isUpdating
  /\ PendingOfKind("resetUpdating") # {}
  /\ taskRegen.regen = "published"

\* C9: the head holds at most one custom-preset <style> element, and a
\* regeneration leaves exactly the newly generated CSS: one element with that
\* text, or none when no preset is active.
C9_OneStylesheetFullyReplaced ==
  /\ Len(CustomPresetElements) <= 1
  /\ taskRegen.regen = "published" =>
       /\ Len(CustomPresetElements) = 1
       /\ InjectedCSS = ExpectedCSS
  /\ taskRegen.regen = "cleared" => CustomPresetElements = <<>>

\* a regeneration has replaced an element an earlier regeneration injected
C9_Replaced ==
  /\ taskRegen.regen = "published"
  /\ taskRegen.source = "handler"
  /\ Len(CustomPresetElements) = 1
  /\ Len(GenerateActiveCSS(CurrentSettings)) = 2

\* the ids of the stored presets, in list order
StoredIds == IdsOf(presetObj, customPresets)

\* the scheme is built in, or names a stored preset
SchemeResolves(scheme) ==
  startsWith(scheme, CustomPrefix) =>
    \E i \in 1..Len(customPresets) : scheme = CustomSchemeId(StoredId(i))

\* the stored presets without those of the id, the selectors that named the
\* id back on the built-in default
DeletionOf(id) ==
  /\ IdsOf(presetObj', customPresets') =
       SelectSeq(StoredIds, LAMBDA other : other # id)
  /\ lightScheme' = IF lightScheme = CustomSchemeId(id)
                    THEN OxygenLight ELSE lightScheme
  /\ darkScheme' = IF darkScheme = CustomSchemeId(id)
                   THEN OxygenDark ELSE darkScheme

\* C11: deleting an active preset asks first.  The step that opens the
\* prompt changes no setting; a preset that is active leaves the list only
\* in a step taken from its prompt; the step that leaves the prompt either
\* changes none of customPresets, lightScheme and darkScheme, or removes
\* the preset and resets exactly the selectors that named it, after which
\* both selectors resolve.
C11_ActiveDeleteAsksFirst ==
  [][/\ modal'.kind = "confirm" =>
          UNCHANGED <<customPresets, lightScheme, darkScheme>>
     /\ \A i \in 1..Len(customPresets) :
          (/\ \/ lightScheme = CustomSchemeId(StoredId(i))
              \/ darkScheme = CustomSchemeId(StoredId(i))
           /\ customPresets[i] \notin Range(customPresets')) =>
            (modal.kind = "confirm" /\ modal.preset = customPresets[i])
     /\ (modal.kind = "confirm" /\ modal'.kind # "confirm") =>
          \/ UNCHANGED <<customPresets, lightScheme, darkScheme>>
          \/ /\ DeletionOf(presetObj[modal.preset].id)
             /\ SchemeResolves(lightScheme)' /\ SchemeResolves(darkScheme)'
             /\ modal.preset \notin Range(customPresets')]_vars

\* the prompt is open for a preset that is active in both modes, another
\* preset is stored
C11_PromptOpen ==
  /\ modal.kind = "confirm"
  /\ lightScheme = CustomSchemeId(presetObj[modal.preset].id)
  /\ darkScheme = CustomSchemeId(presetObj[modal.preset].id)
  /\ Len(customPresets) = 2

\* C12: a duplicate id blocks the import.  A step of the import modal that
\* lengthens customPresets inserts the parsed preset, and no preset stored
\* at that moment has its id.
C12_DuplicateIdBlocksImport ==
  [][(modal.kind = "import" /\ Len(customPresets') > Len(customPresets)) =>
       /\ modal.preset \in Range(customPresets')
       /\ \A i \in 1..Len(customPresets) :
            StoredId(i) # presetObj[modal.preset].id]_vars

\* the importer holds a parsed preset whose id a stored preset has: the
\* import button is disabled
C12_ConflictShown ==
  /\ modal.kind = "import" /\ modal.preset # 0
  /\ ~ modal.importEnabled
  /\ \E i \in 1..Len(customPresets) :
       StoredId(i) = presetObj[modal.preset].id

\* C13: updatePreset fails when no existing preset has the id.  When it
\* finds one: if the partial supplies an id other than id, a successful call
\* means the new id has the valid format and no other preset has it; if the
\* partial supplies a name, the call fails when the sanitized name is empty
\* and else the result carries the sanitized name.
C13_UpdatePresetValidates ==
  probe.stage = "updated" =>
    LET u == probe.updates
        r == probe.result
        found == \E i \in 1..Len(probe.existing) : probe.existing[i].id = probe.id
    IN /\ ~ found => r.status = "threw"
       /\ (found /\ u.id # Undefined /\ u.id # probe.id /\ r.status = "ok") =>
            /\ validatePresetIdFormat(u.id)
            /\ \A i \in 1..Len(probe.existing) :
                 probe.existing[i].id # probe.id => probe.existing[i].id # u.id
       /\ (found /\ u.name # Undefined) =>
            IF sanitizePresetName(u.name) = <<>> THEN r.status = "threw"
            ELSE r.status = "ok" => r.preset.name = sanitizePresetName(u.name)

\* the document lacks id, name, a palette, or a palette's base or accent
DocumentLacksMember(json) ==
  \/ json.id = Undefined \/ json.name = Undefined
  \/ json.light.missing \cap {"self", "base", "accent"} # {}
  \/ json.dark.missing \cap {"self", "base", "accent"} # {}

InRange(hsl) ==
  /\ 0 <= hsl.h /\ hsl.h <= 360
  /\ 0 <= hsl.s /\ hsl.s <= 100
  /\ 0 <= hsl.l /\ hsl.l <= 100

\* some base or accent component of the document is outside its range
DocumentOutOfRange(json) ==
  \E palette \in {json.light, json.dark} :
     ~ InRange(palette.base) \/ ~ InRange(palette.accent)

\* the id or the name of the document is empty after sanitization
DocumentSanitizesEmpty(json) ==
  \E text \in {json.id, json.name} :
     text # Undefined /\ sanitizePresetName(text) = <<>>

\* C14: importPresetFromJSON returns no preset for a document that lacks a
\* required member, holds a base or accent component outside its range, or
\* has an id or name that is empty after sanitization.
C14_ImportRejectsMalformed ==
  probe.stage = "imported" =>
    ((\/ DocumentLacksMember(probe.json)
      \/ DocumentOutOfRange(probe.json)
      \/ DocumentSanitizesEmpty(probe.json)) => probe.result.status = "threw")

\* a complete document in range whose name is whitespace only was refused,
\* and so was one whose only flaw is light.base.h = 361
C14_Refused ==
  /\ probe.stage = "imported" /\ probe.result.status = "threw"
  /\ ~ DocumentLacksMember(probe.json)
  /\ \/ /\ probe.json.name = <<" ">> /\ ~ DocumentOutOfRange(probe.json)
        /\ probe.json.id = <<"a">>
     \/ /\ probe.json.light.base.h = 361 /\ InRange(probe.json.dark.base)
        /\ ~ DocumentSanitizesEmpty(probe.json)

\* C15: a preset createPreset returns has an id of the valid format that
\* the list does not hold; the second of two calls with one name, the first
\* result appended in between, returns too, and its id is another one: the
\* first id followed by a hyphen and a number.
C15_SecondIdIsFirstWithSuffix ==
  /\ cp.pc = "done" => validatePresetId(cp.id, cp.existing, Undefined)
  /\ (cp.pc = "loop" /\ cp.first # Undefined) =>
       \E n \in (cp.counter - 1)..(cp.counter + Len(cp.existing)) :
          validatePresetId(CandidateId(cp.sanitizedName, n), cp.existing,
                           Undefined)
  /\ (cp.pc = "done" /\ cp.first # Undefined) =>
       /\ cp.id # cp.first
       /\ \E n \in 1..MaxLoopCounter :
            cp.id = cp.first \o <<"-">> \o NatToString(n)

\* C16: the id of a preset does not change: the preset updatePreset returns
\* for the preset of an id carries that id.
C16_UpdateKeepsId ==
  (probe.stage = "updated" /\ probe.result.status = "ok") =>
    probe.result.preset.id = probe.id

\* the declarations of a rule in the order of the text, those of a nested
\* block in the place of the block
RECURSIVE FlatDecls(_)
FlatDecls(decls) ==
  IF decls = <<>> THEN <<>>
  ELSE (IF Head(decls).value.fn = "block"
        THEN FlatDecls(Head(decls).value.decls)
        ELSE <<Head(decls)>>)
       \o FlatDecls(Tail(decls))

\* the value of the last declaration of a property in a rule's text
LastValue(rule, prop) ==
  LET flat == FlatDecls(rule.decls)
      at == { i \in 1..Len(flat) : flat[i].prop = prop }
  IN IF at = {} THEN Undefined
     ELSE flat[CHOOSE i \in at : \A j \in at : j <= i].value

\* the keys of the override set a ColorOverrides object gives a colour
OverriddenKeys(colors) ==
  { key \in Range(OverrideKeys) :
      key \in DOMAIN colors /\ colors[key] # HexString("") }

\* the custom properties PresetManager.generatePresetCSS declares for a key
NativeProps(key) ==
  { NativeOverrideDecls(key, HexString("#000000"))[i].prop :
      i \in 1..Len(NativeOverrideDecls(key, HexString("#000000"))) }

ProbeColors ==
  IF probe.mode = "light" THEN probe.preset.lightColors
  ELSE probe.preset.darkColors

\* C17: for every key of the override set with a non-empty colour in the
\* palette's colors object, the last declaration of the key's custom property
\* in the text of either generator carries that colour.
C17_OverridesComeLast ==
  probe.stage = "generated" =>
    \A key \in OverriddenKeys(ProbeColors) :
      /\ LastValue(probe.css,
                   IF key \in OxygenKeys THEN OxygenProp(key)
                   ELSE ColorProp(key)) = Literal(ProbeColors[key])
      /\ \A prop \in NativeProps(key) :
           \/ LastValue(probe.native, prop) = Important(ProbeColors[key])
           \/ LastValue(probe.native, prop) = Literal(ProbeColors[key])

C17_Overridden ==
  /\ probe.stage = "generated"
  /\ OverriddenKeys(ProbeColors) = Range(OverrideKeys)
  /\ LastValue(probe.css, "--bg1") = Literal(HexString("#abcdef"))

\* C18: the special colour of the generated rule is white when the mode is
\* dark and black when the mode is light.
C18_SpecialColourInverts ==
  probe.stage = "generated" =>
    LastValue(probe.css, "--sp1") =
      Literal(IF probe.mode = "dark" THEN "white" ELSE "black")

\* the declarations of a rule that set a property
DeclsOf(rule, prop) ==
  { i \in 1..Len(rule.decls) : rule.decls[i].prop = prop }

\* C19: generateCSS returns one rule block (no block inside it) whose
\* selector is the mode class and the class minimal-custom-<id> together, and
\* --base-h/-s/-l and --accent-h/-s/-l are declared once each, with the
\* components of the base and the accent colour of the palette of the mode.
C19_OneRuleOfModePalette ==
  probe.stage = "generated" =>
    LET preset == probe.preset
        palette == IF probe.mode = "light" THEN preset.light ELSE preset.dark
        css == probe.css
        Seed(prop, value) ==
          /\ Cardinality(DeclsOf(css, prop)) = 1
          /\ LastValue(css, prop) = value
    IN /\ css.selector =
            [prefix |-> "",
             themeClass |-> IF probe.mode = "light" THEN "theme-light"
                            ELSE "theme-dark",
             className |-> CustomPrefix \o preset.id]
       /\ \A i \in 1..Len(css.decls) : css.decls[i].value.fn # "block"
       /\ Seed("--base-h", Number(palette.base.h))
       /\ Seed("--base-s", Percent(palette.base.s))
       /\ Seed("--base-l", Percent(palette.base.l))
       /\ Seed("--accent-h", Number(palette.accent.h))
       /\ Seed("--accent-s", Percent(palette.accent.s))
       /\ Seed("--accent-l", Percent(palette.accent.l))

C19_DarkRuleGenerated ==
  /\ probe.stage = "generated"
  /\ probe.mode = "dark"
  /\ probe.preset.light.base # probe.preset.dark.base
  /\ probe.preset.light.accent # probe.preset.dark.accent
  /\ probe.css.selector.themeClass = "theme-dark"
  /\ LastValue(probe.css, "--base-l") = Percent(probe.preset.dark.base.l)

\* C20: for every base colour in range, the colour either derivation gives a
\* bg, ui or tx token has its lightness in 0..100, a saturation that is not
\* negative, and the hue of the base colour.
C20_DerivedColoursInRange ==
  probe.stage = "derived" =>
    \A c \in {probe.generated, probe.default} :
      /\ 0 <= c.l /\ c.l <= 100
      /\ c.s >= 0
      /\ c.h = probe.base.h

\* a clamp is hit: a light base of lightness 51 whose tx1 default is cut at 0
C20_ClampedAtZero ==
  /\ probe.stage = "derived"
  /\ probe.key = "tx1"
  /\ probe.base.l = 51
  /\ probe.base.s = 5
  /\ probe.default.l = 0
  /\ probe.default.s = 0

\* |a - b|
Distance(a, b) == IF a > b THEN a - b ELSE b - a

\* C21: hexToHSL(hslToHex(hsl)) differs from hsl by at most 1 in each of h, s
\* and l.
C21_RoundTripWithinOne ==
  probe.stage = "back" =>
    /\ Distance(probe.back.h, probe.hsl.h) <= 1
    /\ Distance(probe.back.s, probe.hsl.s) <= 1
    /\ Distance(probe.back.l, probe.hsl.l) <= 1

\* list without the presets of the id, the others in their order
RECURSIVE WithoutId(_, _)
WithoutId(list, id) ==
  IF list = <<>> THEN <<>>
  ELSE IF Head(list).id = id THEN WithoutId(Tail(list), id)
  ELSE <<Head(list)>> \o WithoutId(Tail(list), id)

\* C22: deletePreset returns the list without the presets of the id, the rest
\* in their order; the list it was given is unchanged; an absent id gives an
\* equal list; a second application gives what the first gave.
C22_DeleteIsPureFilter ==
  /\ probe.stage \in {"deleted", "deleted twice"} =>
       /\ probe.result = WithoutId(probe.given, probe.id)
       /\ probe.existing = probe.given
       /\ (\A i \in 1..Len(probe.given) : probe.given[i].id # probe.id)
            => probe.result = probe.given
  /\ probe.stage = "deleted twice" => probe.again = probe.result

C22_DeletedTwoOfThree ==
  /\ probe.stage = "deleted twice"
  /\ Len(probe.given) = 3
  /\ Len(probe.result) = 1
  /\ probe.given[2] = probe.result[1]
  /\ probe.again = probe.result

\* the custom-preset stylesheet of a head holds the rule of the preset a
\* scheme names, for a mode
HoldsRuleOf(head, scheme, mode) ==
  LET rules == InjectedRules(SelectSeq(head, LAMBDA e : e.dataCustomPresets))
  IN \E i \in 1..Len(rules) :
       rules[i].mode = mode /\ CustomSchemeId(rules[i].id) = scheme

\* C23: when a cycle command has run with a non-empty customPresets list and
\* the Oxygen theme active, the injected custom-preset stylesheet holds the
\* rule of the preset the command selected, for the command's mode.
C23_CycleRegenerates ==
  [][ /\ (CommandCycleLight /\ customPresets # <<>> /\ isOxygenActive)
           => HoldsRuleOf(headStyles', lightScheme', "light")
      /\ (CommandCycleDark /\ customPresets # <<>> /\ isOxygenActive)
           => HoldsRuleOf(headStyles', darkScheme', "dark") ]_vars

\* the scheme classes among the classes of a body: the built-in schemes and
\* every class minimal-custom-<id>
SchemeClasses(body) ==
  { c \in body :
      c \in LIGHT_SCHEMES \cup DARK_SCHEMES \/ startsWith(c, CustomPrefix) }

\* a step in which updateStyle, updateLightScheme or updateDarkScheme ran
SchemeUpdateStep ==
  \/ ConfirmDelete
  \/ \E i \in 1..MaxPresets : ClickDeletePreset(i) /\ modal' = NoModal
  \/ \E value \in LIGHT_SCHEMES \cup CustomOptions : SelectLightScheme(value)
  \/ \E value \in DARK_SCHEMES \cup CustomOptions : SelectDarkScheme(value)
  \/ CommandCycleLight /\ customPresets # <<>>
  \/ CommandCycleDark /\ customPresets # <<>>

\* C24: after a step in which updateStyle, updateLightScheme or
\* updateDarkScheme ran, the body carries one scheme class, the scheme of the
\* mode whose class the body carries, and no other class minimal-custom-<id>.
C24_OneSchemeClass ==
  [][ SchemeUpdateStep =>
        SchemeClasses(bodyClasses') =
          { IF ThemeLight \in bodyClasses' THEN lightScheme'
            ELSE darkScheme' } ]_vars

\* the observers setupCSSWatcher created that are connected
ConnectedObservers == (IF cssObserver THEN 1 ELSE 0) + leakedObservers

\* initialize() has not run since the last cleanup(), or never: the plugin
\* is unloaded, or loaded with _isOxygenActive false
CleanedUp ==
  \/ lifecycle = "unloaded"
  \/ lifecycle = "loaded" /\ ~ isOxygenActive

\* C25: at most one observer created by setupCSSWatcher is connected, and
\* none is connected while cleanup() was the last of initialize() and
\* cleanup() to run.
C25_ObserverCleanedUp ==
  /\ ConnectedObservers <= 1
  /\ CleanedUp => ConnectedObservers = 0

\* the style elements of the plugin in the document: the element with id
\* minimal-theme and the elements that carry data-custom-presets
PluginStyleElements ==
  SelectSeq(headStyles,
            LAMBDA e : e.id = ThemeStyleId \/ e.dataCustomPresets)

\* C26: once onunload has returned no style element of the plugin is in the
\* document, and no timer or observer callback inserts one afterwards.
C26_NoStylesAfterUnload ==
  lifecycle = "unloaded" => PluginStyleElements = <<>>

\* the elements with id minimal-theme in the document
ThemeStyleElements == { i \in 1..Len(headStyles) : headStyles[i].id = ThemeStyleId }

\* C30: between onload and onunload, initialize() runs only in a step that
\* takes _isOxygenActive from false to true under the Oxygen theme, cleanup()
\* only in a step that takes it from true to false under another theme, and
\* the value changes in no other step: the two alternate, and at most one
\* element with id minimal-theme exists.
C30_InitializeCleanupAlternate ==
  /\ [](lifecycle = "loaded" => Cardinality(ThemeStyleElements) <= 1)
  /\ [][ lifecycle' = "loaded" =>
           /\ taskRegen'.call = "initialize"
                <=> (~ isOxygenActive /\ isOxygenActive')
           /\ taskRegen'.call = "cleanup"
                <=> (isOxygenActive /\ ~ isOxygenActive')
           /\ taskRegen'.call = "initialize" => cssTheme'
           /\ taskRegen'.call = "cleanup" => ~ cssTheme' ]_vars

\* initialize() has run a second time, after a cleanup()
C30_InitializedAgain ==
  /\ lifecycle = "loaded"
  /\ taskRegen.call = "initialize"
  /\ taskRegen.source = "themeChanged"
  /\ Cardinality(ThemeStyleElements) = 1


\* the palette of a stored preset with its colors object by value
StoredPalette(palette) ==
  [base |-> palette.base, accent |-> palette.accent,
   colors |-> colorsObj[palette.colors],
   frameLightnessOffset |-> palette.frameLightnessOffset]

\* importPresetFromJSON(exportPresetAsJSON(p)) of the i-th stored preset
ReImported(i) ==
  importPresetFromJSON(exportPresetAsJSON(presetObj[customPresets[i]], colorsObj))

\* C27: exporting a stored preset and importing the exported text succeeds
\* and gives a preset with the same id, the same name and, in both palettes,
\* the same base, accent, colors and frameLightnessOffset
C27_ExportImportIdentity ==
  \A i \in 1..Len(customPresets) :
    LET p == presetObj[customPresets[i]]
        back == ReImported(i)
    IN /\ back.status = "ok"
       /\ back.preset.id = p.id
       /\ back.preset.name = p.name
       /\ back.preset.light = StoredPalette(p.light)
       /\ back.preset.dark = StoredPalette(p.dark)

\* C28: when the editor was opened on a stored preset and is closed with
\* Cancel, every stored preset has the field values it had when the editor
\* was opened
C28_CancelCommitsNothing ==
  [][(EditorCancel /\ modal.isEditing /\ probe.key = "opened")
       => StoredValues' = probe.stored]_vars

\* C29: while enableCustomPresets is false, neither lightScheme nor
\* darkScheme names a custom preset (starts with "minimal-custom-")
C29_DisabledMeansNoCustomScheme ==
  ~ enableCustomPresets =>
    /\ ~ startsWith(lightScheme, CustomPrefix)
    /\ ~ startsWith(darkScheme, CustomPrefix)
====
